---- MODULE Spec2Model ----
(***************************************************************************)
(* FarbenWolf: the survey entry store of SurveyTab (survey_tab.py), the    *)
(* numeric input parser, the area calculator (calculator.py) and the      *)
(* export/import collaborators as far as they act on the row sequence.    *)
(*                                                                         *)
(* Representation.                                                         *)
(*  - A text is a sequence of one-character strings; labels taken from a   *)
(*    fixed list (area types, work types) are texts of one atom.           *)
(*  - A number is a normalised fraction <<n, d>> with d > 0.               *)
(*  - A cell of the data frame is a tagged value: Str(text), Num(q), NaN.  *)
(*  - A row is a record with one cell per column of table_columns; the     *)
(*    data frame self.df is a sequence of rows (index label i = place i).  *)
(***************************************************************************)
EXTENDS Integers, Sequences, FiniteSets, TLC

\* ------------------------------------------------------------------------
\* Bounds of the model
\* ------------------------------------------------------------------------
\* largest number of committed rows the add handler is allowed to build
MaxRows == 3

\* ------------------------------------------------------------------------
\* Numbers: fractions <<n, d>>
\* ------------------------------------------------------------------------
\* F applied to the value of v, with v evaluated once
With(v, F(_)) == CHOOSE y \in {F(x) : x \in {v}} : TRUE

Abs(x) == IF x < 0 THEN -x ELSE x

RECURSIVE Gcd(_, _)
Gcd(a, b) == IF b = 0 THEN a ELSE With(a % b, LAMBDA r : Gcd(b, r))

Norm(n, d) ==
  With(<<n, d>>, LAMBDA p :
    With(Gcd(Abs(p[1]), Abs(p[2])) * (IF p[2] < 0 THEN -1 ELSE 1), LAMBDA g :
      <<p[1] \div g, p[2] \div g>>))

Q(n) == <<n, 1>>
QAdd(a, b) == Norm(a[1] * b[2] + b[1] * a[2], a[2] * b[2])
QSub(a, b) == Norm(a[1] * b[2] - b[1] * a[2], a[2] * b[2])
QMul(a, b) == Norm(a[1] * b[1], a[2] * b[2])
QDiv(a, b) == Norm(a[1] * b[2], a[2] * b[1])
QNeg(a) == <<-a[1], a[2]>>
\* variant: the sign of the absolute value is wrong
QAbs_negative(a) == <<-Abs(a[1]), a[2]>>
QAbs(a) == <<Abs(a[1]), a[2]>>
QLess(a, b) == a[1] * b[2] < b[1] * a[2]
QIsZero(a) == a[1] = 0
QIsInt(a) == a[2] = 1
\* floor of a fraction (Integers' \div rounds towards minus infinity)
QFloor(a) == a[1] \div a[2]

\* ------------------------------------------------------------------------
\* Texts
\* ------------------------------------------------------------------------
Digits == <<"0", "1", "2", "3", "4", "5", "6", "7", "8", "9">>
DigitSet == {Digits[i] : i \in 1..10}
DigitVal(c) == (CHOOSE i \in 1..10 : Digits[i] = c) - 1
Whitespace == {" ", "\t", "\n"}

IsDigits(s) == \A i \in 1..Len(s) : s[i] \in DigitSet

RECURSIVE DigitsVal(_)
DigitsVal(s) ==
  IF s = <<>> THEN 0
  ELSE 10 * DigitsVal(SubSeq(s, 1, Len(s) - 1)) + DigitVal(s[Len(s)])

RECURSIVE Pow10(_)
Pow10(k) == IF k = 0 THEN 1 ELSE 10 * Pow10(k - 1)

\* str.strip(): drop leading and trailing whitespace
RECURSIVE LStrip(_)
LStrip(s) ==
  IF s # <<>> /\ s[1] \in Whitespace THEN LStrip(Tail(s)) ELSE s

RECURSIVE RStrip(_)
RStrip(s) ==
  IF s # <<>> /\ s[Len(s)] \in Whitespace
  THEN RStrip(SubSeq(s, 1, Len(s) - 1)) ELSE s

Strip(s) == RStrip(LStrip(s))

\* str(i) for an integer i >= 0
RECURSIVE IntToText(_)
IntToText(i) ==
  IF i < 10 THEN <<Digits[i + 1]>>
  ELSE IntToText(i \div 10) \o <<Digits[(i % 10) + 1]>>

\* int(text): surrounding whitespace and one sign are accepted, then digits
\* only; anything else is a ValueError (ok = FALSE)
PyInt(text) ==
  With(Strip(text), LAMBDA s :
    LET signed == s # <<>> /\ s[1] \in {"+", "-"}
        body == IF signed THEN Tail(s) ELSE s
    IN  IF body # <<>> /\ IsDigits(body)
        THEN With(DigitsVal(body), LAMBDA v :
               [ok |-> TRUE, val |-> IF signed /\ s[1] = "-" THEN -v ELSE v])
        ELSE [ok |-> FALSE, val |-> 0])

\* ------------------------------------------------------------------------
\* Cells and rows of the data frame
\* ------------------------------------------------------------------------
Str(s) == [t |-> "str", v |-> s]
Num(q) == [t |-> "num", v |-> q]
NaN == [t |-> "nan", v |-> <<>>]

\* pandas elementwise ==: NaN equals nothing, a string never equals a number
CellEq(a, b) == a.t # "nan" /\ a.t = b.t /\ a.v = b.v

\* pd.isna(value)
IsNa(c) == c.t = "nan"

\* str(v).strip() == "": str() of a number or of NaN is never blank
IsBlank(c) == c.t = "str" /\ Strip(c.v) = <<>>

table_columns ==
  <<"Pos", "Stk", "Laenge", "Breite", "Hoehe1", "Hoehe2",
    "Flaechenart", "Ergebnis", "Arbeit", "Bemerkung">>

Columns == {table_columns[i] : i \in 1..Len(table_columns)}

\* pd.Series([""] * len(table_columns), index=table_columns)
empty_row == [c \in Columns |-> Str(<<>>)]

\* the emptiness test used by the add and the delete handler
IsEmptyRow(row) ==
  \/ \A c \in Columns : IsNa(row[c])
  \/ \A c \in Columns : IsBlank(row[c])

\* ------------------------------------------------------------------------
\* SurveyTab._parse_number_or_raise: whitelist, then eval() of the text
\* ------------------------------------------------------------------------
\* text.replace(",", ".")
\* variant: the comma is left in the text
ReplaceComma_none(s) == s
ReplaceComma(s) == [i \in 1..Len(s) |-> IF s[i] = "," THEN "." ELSE s[i]]

\* re.match(r"^[0-9\.\+\-\*\/\(\) ]+$", text)
AllowedChars == DigitSet \cup {".", "+", "-", "*", "/", "(", ")", " "}
\* variant: the pattern also matches the empty text
Whitelisted_allows_empty(s) == \A i \in 1..Len(s) : s[i] \in AllowedChars
Whitelisted(s) == s # <<>> /\ \A i \in 1..Len(s) : s[i] \in AllowedChars

NumTok(q) == [k |-> "num", q |-> q, o |-> ""]
OpTok(o) == [k |-> "op", q |-> <<0, 1>>, o |-> o]
IsOp(toks, o) == toks # <<>> /\ toks[1].k = "op" /\ toks[1].o = o

RECURSIVE LeadDigits(_)
LeadDigits(s) ==
  IF s # <<>> /\ s[1] \in DigitSet THEN 1 + LeadDigits(Tail(s)) ELSE 0

\* one number literal at the head of s, as Python's tokenizer reads it:
\* digits [ "." digits ], a lone "." is no number, an integer literal with
\* more than one digit must not start with 0 unless it is all zeros
ScanNumber(s) ==
  With(LeadDigits(s), LAMBDA n1 :
    With(Len(s) > n1 /\ s[n1 + 1] = ".", LAMBDA hasDot :
      With(IF hasDot THEN LeadDigits(SubSeq(s, n1 + 2, Len(s))) ELSE 0,
           LAMBDA n2 :
        LET used == IF hasDot THEN n1 + 1 + n2 ELSE n1
            ip == SubSeq(s, 1, n1)
            fp == SubSeq(s, n1 + 2, n1 + 1 + n2)
            valid == IF hasDot THEN n1 + n2 > 0
                     ELSE /\ n1 >= 1
                          /\ \/ n1 = 1
                             \/ ip[1] # "0"
                             \/ \A i \in 1..n1 : ip[i] = "0"
        IN  [ok |-> valid,
             q |-> Norm(DigitsVal(ip \o fp), Pow10(n2)),
             rest |-> SubSeq(s, used + 1, Len(s))])))

\* the tokens of s after the tokens already read
RECURSIVE Tokenize(_, _)
Tokenize(s, read) ==
  IF s = <<>> THEN [ok |-> TRUE, toks |-> read]
  ELSE IF s[1] \in Whitespace THEN Tokenize(Tail(s), read)
  ELSE IF s[1] \in DigitSet \cup {"."} THEN
    With(ScanNumber(s), LAMBDA n :
      IF n.ok THEN Tokenize(n.rest, Append(read, NumTok(n.q)))
      ELSE [ok |-> FALSE, toks |-> <<>>])
  ELSE IF Len(s) >= 2 /\ s[1] \in {"*", "/"} /\ s[2] = s[1] THEN
    Tokenize(SubSeq(s, 3, Len(s)),
             Append(read, OpTok(IF s[1] = "*" THEN "**" ELSE "//")))
  ELSE IF s[1] \in {"+", "-", "*", "/", "(", ")"} THEN
    Tokenize(Tail(s), Append(read, OpTok(s[1])))
  ELSE [ok |-> FALSE, toks |-> <<>>]

Fail == [ok |-> FALSE, val |-> <<0, 1>>, rest |-> <<>>]
Done(v, rest) == [ok |-> TRUE, val |-> v, rest |-> rest]

RECURSIVE QPowNat(_, _)
QPowNat(b, e) == IF e = 0 THEN <<1, 1>> ELSE QMul(b, QPowNat(b, e - 1))

\* b ** e for an integral exponent; 0 ** negative is a ZeroDivisionError.
\* A fractional exponent leaves the fractions (an irrational or a complex
\* value); the texts of this model keep exponents integral.
PyPow(b, e) ==
  IF ~QIsInt(e) THEN [ok |-> FALSE, val |-> <<0, 1>>]
  ELSE IF e[1] >= 0 THEN [ok |-> TRUE, val |-> QPowNat(b, e[1])]
  ELSE IF QIsZero(b) THEN [ok |-> FALSE, val |-> <<0, 1>>]
  ELSE [ok |-> TRUE, val |-> QDiv(<<1, 1>>, QPowNat(b, -e[1]))]

\* Python's expression grammar restricted to the whitelisted characters:
\*   expr   ::= term (("+" | "-") term)*
\*   term   ::= factor (("*" | "/" | "//") factor)*
\*   factor ::= ("+" | "-") factor | power
\*   power  ::= atom ["**" factor]
\*   atom   ::= NUMBER | "(" expr ")"
\* "()" is the empty tuple and atom "(" ... ")" is a call of a number: both
\* parse, and fail in float() or at run time, inside the same try block.
RECURSIVE ParseExpr(_), ExprRest(_, _), ParseTerm(_), TermRest(_, _)
RECURSIVE ParseFactor(_), ParsePower(_), ParseAtom(_)

ParseAtom(toks) ==
  IF toks = <<>> THEN Fail
  ELSE IF toks[1].k = "num" THEN
    IF IsOp(Tail(toks), "(") THEN Fail ELSE Done(toks[1].q, Tail(toks))
  ELSE IF toks[1].o = "(" THEN
    With(ParseExpr(Tail(toks)), LAMBDA r :
      IF r.ok /\ IsOp(r.rest, ")") /\ ~IsOp(Tail(r.rest), "(")
      THEN Done(r.val, Tail(r.rest)) ELSE Fail)
  ELSE Fail

ParsePower(toks) ==
  With(ParseAtom(toks), LAMBDA a :
    IF a.ok /\ IsOp(a.rest, "**") THEN
      With(ParseFactor(Tail(a.rest)), LAMBDA e :
        With(PyPow(a.val, e.val), LAMBDA p :
          IF e.ok /\ p.ok THEN Done(p.val, e.rest) ELSE Fail))
    ELSE a)

ParseFactor(toks) ==
  IF IsOp(toks, "+") THEN ParseFactor(Tail(toks))
  ELSE IF IsOp(toks, "-") THEN
    With(ParseFactor(Tail(toks)), LAMBDA f :
      IF f.ok THEN Done(QNeg(f.val), f.rest) ELSE Fail)
  ELSE ParsePower(toks)

TermRest(acc, toks) ==
  IF IsOp(toks, "*") \/ IsOp(toks, "/") \/ IsOp(toks, "//") THEN
    With(ParseFactor(Tail(toks)), LAMBDA f :
      IF ~f.ok THEN Fail
      ELSE IF toks[1].o = "*" THEN TermRest(QMul(acc, f.val), f.rest)
      ELSE IF QIsZero(f.val) THEN Fail
      ELSE IF toks[1].o = "/" THEN TermRest(QDiv(acc, f.val), f.rest)
      ELSE TermRest(Q(QFloor(QDiv(acc, f.val))), f.rest))
  ELSE Done(acc, toks)

ParseTerm(toks) ==
  With(ParseFactor(toks), LAMBDA f :
    IF f.ok THEN TermRest(f.val, f.rest) ELSE Fail)

ExprRest(acc, toks) ==
  IF IsOp(toks, "+") \/ IsOp(toks, "-") THEN
    With(ParseTerm(Tail(toks)), LAMBDA t :
      IF ~t.ok THEN Fail
      ELSE IF toks[1].o = "+" THEN ExprRest(QAdd(acc, t.val), t.rest)
      ELSE ExprRest(QSub(acc, t.val), t.rest))
  ELSE Done(acc, toks)

ParseExpr(toks) ==
  With(ParseTerm(toks), LAMBDA t :
    IF t.ok THEN ExprRest(t.val, t.rest) ELSE Fail)

\* variant: a text that does not evaluate counts as 0
EvalText_zero(s) == [ok |-> TRUE, val |-> <<0, 1>>]

\* float(eval(text)); ok = FALSE is an exception raised by eval or float
EvalText(s) ==
  With(Tokenize(s, <<>>), LAMBDA tk :
    With(IF tk.ok THEN ParseExpr(tk.toks) ELSE Fail, LAMBDA r :
      IF r.ok /\ r.rest = <<>> THEN [ok |-> TRUE, val |-> r.val]
      ELSE [ok |-> FALSE, val |-> <<0, 1>>]))

\* lines 531-532: the text of the ValueError, which names the field
error_text(feldname) ==
  <<"Ungueltige Eingabe fuer '">> \o feldname
    \o <<"'. Bitte gib eine Zahl oder einfachen Ausdruck ein.">>

\* SurveyTab._parse_number_or_raise; ok = FALSE is the ValueError it raises,
\* err its text, evaluated tells whether eval(text) was reached
_parse_number_or_raise(text, feldname) ==
  With(ReplaceComma(Strip(text)), LAMBDA t :
    IF ~Whitelisted(t)
    THEN [ok |-> FALSE, val |-> <<0, 1>>, err |-> error_text(feldname),
          evaluated |-> FALSE]
    ELSE With(EvalText(t), LAMBDA r :
           IF r.ok
           THEN [ok |-> TRUE, val |-> r.val, err |-> <<>>, evaluated |-> TRUE]
           ELSE [ok |-> FALSE, val |-> <<0, 1>>, err |-> error_text(feldname),
                 evaluated |-> TRUE]))

\* ------------------------------------------------------------------------
\* Calculator (calculator.py)
\* ------------------------------------------------------------------------
\* float(text) of Python: surrounding whitespace and one sign are accepted,
\* then "inf", "infinity" or "nan" in any case, or digits with at most one
\* "." and an optional exponent, single "_" allowed between digits
LowerChar(c) ==
  CASE c = "I" -> "i" [] c = "N" -> "n" [] c = "F" -> "f" [] c = "A" -> "a"
    [] c = "T" -> "t" [] c = "Y" -> "y" [] c = "E" -> "e" [] OTHER -> c
LowerText(s) == [i \in 1..Len(s) |-> LowerChar(s[i])]

\* the digits without their "_"; ok = FALSE when a "_" is not between digits
Ungroup(s) ==
  [ok |-> \A i \in 1..Len(s) :
            s[i] = "_" => /\ i > 1 /\ i < Len(s)
                          /\ s[i - 1] \in DigitSet /\ s[i + 1] \in DigitSet,
   s |-> SelectSeq(s, LAMBDA c : c # "_")]

\* digits with at most one ".", at least one digit
Mantissa(m) ==
  IF m = <<>> THEN [ok |-> FALSE, val |-> <<0, 1>>]
  ELSE IF IsDigits(m) THEN [ok |-> TRUE, val |-> Q(DigitsVal(m))]
  ELSE IF m[1] \in DigitSet \cup {"."} THEN
    With(ScanNumber(m), LAMBDA n :
      IF n.rest = <<>> /\ n.ok THEN [ok |-> TRUE, val |-> n.q]
      ELSE [ok |-> FALSE, val |-> <<0, 1>>])
  ELSE [ok |-> FALSE, val |-> <<0, 1>>]

\* the exponent after "e": an optional sign and digits
Exponent(e) ==
  LET signed == e # <<>> /\ e[1] \in {"+", "-"}
      body == IF signed THEN Tail(e) ELSE e
  IN  IF body # <<>> /\ IsDigits(body)
      THEN [ok |-> TRUE,
            val |-> IF signed /\ e[1] = "-" THEN -DigitsVal(body)
                    ELSE DigitsVal(body)]
      ELSE [ok |-> FALSE, val |-> 0]

\* q * 10 ** k
Scale10(q, k) ==
  IF k >= 0 THEN QMul(q, Q(Pow10(k))) ELSE QDiv(q, Q(Pow10(-k)))

\* special is "inf", "-inf" or "nan" when the float is no finite number
PyFloat(text) ==
  With(LowerText(Strip(text)), LAMBDA s :
    LET signed == s # <<>> /\ s[1] \in {"+", "-"}
        neg == signed /\ s[1] = "-"
        body == IF signed THEN Tail(s) ELSE s
        no == [ok |-> FALSE, val |-> <<0, 1>>, special |-> ""]
    IN  IF body \in {<<"i", "n", "f">>,
                     <<"i", "n", "f", "i", "n", "i", "t", "y">>}
        THEN [ok |-> TRUE, val |-> <<0, 1>>,
              special |-> IF neg THEN "-inf" ELSE "inf"]
        ELSE IF body = <<"n", "a", "n">>
        THEN [ok |-> TRUE, val |-> <<0, 1>>, special |-> "nan"]
        ELSE With(Ungroup(body), LAMBDA u :
          IF ~u.ok THEN no
          ELSE With(IF \E i \in 1..Len(u.s) : u.s[i] = "e"
                    THEN CHOOSE i \in 1..Len(u.s) :
                           u.s[i] = "e" /\ \A j \in 1..(i - 1) : u.s[j] # "e"
                    ELSE Len(u.s) + 1, LAMBDA at :
            With(<<Mantissa(SubSeq(u.s, 1, at - 1)),
                   IF at > Len(u.s) THEN [ok |-> TRUE, val |-> 0]
                   ELSE Exponent(SubSeq(u.s, at + 1, Len(u.s)))>>, LAMBDA p :
              IF p[1].ok /\ p[2].ok
              THEN With(Scale10(p[1].val, p[2].val), LAMBDA v :
                     [ok |-> TRUE, val |-> IF neg THEN QNeg(v) ELSE v,
                      special |-> ""])
              ELSE no))))

\* variant: a text of whitespace only counts as empty too
IsEmptyValue_trimmed(value) ==
  IsNa(value) \/ (value.t = "str" /\ Strip(value.v) = <<>>)

\* line 144: pd.isnull(value) or value == ""
IsEmptyValue(value) == IsNa(value) \/ value = Str(<<>>)

\* Calculator._parse_float on a cell
\* ok = FALSE is the ValueError of line 152, err its message
_parse_float(value) ==
  IF IsEmptyValue(value)
  THEN [ok |-> TRUE, val |-> <<0, 1>>, err |-> <<>>, special |-> ""]
  ELSE IF value.t = "num"
  THEN [ok |-> TRUE, val |-> value.v, err |-> <<>>, special |-> ""]
  ELSE With(PyFloat(ReplaceComma(value.v)), LAMBDA f :
         [ok |-> f.ok, val |-> f.val,
          err |-> IF f.ok THEN <<>>
                  ELSE <<"Ungueltige Zahl: '">> \o ReplaceComma(value.v)
                       \o <<"'">>,
          special |-> f.special])

\* largest r with r * r <= n
RECURSIVE ISqrtIn(_, _, _)
ISqrtIn(n, lo, hi) ==
  IF lo >= hi THEN lo
  ELSE LET mid == (lo + hi + 1) \div 2
       IN  IF mid * mid <= n THEN ISqrtIn(n, mid, hi)
           ELSE ISqrtIn(n, lo, mid - 1)

\* math.sqrt, exact on squares of fractions and cut to 1/SqrtScale otherwise
SqrtScale == 1000
QSqrt(a) ==
  LET rn == ISqrtIn(a[1], 0, 46340)
      rd == ISqrtIn(a[2], 0, 46340)
  IN  IF rn * rn = a[1] /\ rd * rd = a[2] THEN <<rn, rd>>
      ELSE Norm(ISqrtIn((a[1] * SqrtScale * SqrtScale) \div a[2], 0, 46340),
                SqrtScale)

\* variant: the hundredths are cut off instead of rounded
Round2_floor(x) == Norm(QFloor(QMul(x, Q(100))), 100)

\* round(x, 2): to the nearest hundredth, a tie goes to the even hundredth
Round2(x) ==
  With(QMul(x, Q(100)), LAMBDA c :
    LET f == QFloor(c)
        r == QSub(c, Q(f))
        up == \/ QLess(<<1, 2>>, r)
              \/ (r = <<1, 2>> /\ f % 2 = 1)
    IN  Norm(IF up THEN f + 1 ELSE f, 100))

Decke == <<"Decke/Bodenflaeche">>
WandRechteckig == <<"Wand (rechteckig)">>
WandDreieckig == <<"Wand (dreieckig)">>
ZweiGegenueber == <<"Zwei gegenueberliegende Waende">>
ZweiNebeneinander == <<"Zwei nebeneinanderliegende Waende">>
AlleOhneDecke == <<"Alle Waende ohne Decke/Sockel">>
AlleMitDecke == <<"Alle Waende mit Decke">>
SchraegOhneDecke == <<"Alle Waende mit einer schraegen Wand (ohne Decke)">>
SchraegMitDecke == <<"Alle Waende mit einer schraegen Wand und Decke">>
FassadeFlachdach == <<"Fassade (Flachdach)">>
FassadeSatteldach == <<"Fassade (Satteldach)">>
FassadeDoppelhaus == <<"Fassade (Doppelhaushaelfte)">>

\* the labels _berechne_flaeche knows (config.py lists the same twelve)
Flaechenarten ==
  {Decke, WandRechteckig, WandDreieckig, ZweiGegenueber, ZweiNebeneinander,
   AlleOhneDecke, AlleMitDecke, SchraegOhneDecke, SchraegMitDecke,
   FassadeFlachdach, FassadeSatteldach, FassadeDoppelhaus}

\* variant: the heights are used as they were entered
SwapHeights_never(h1, h2) == <<h1, h2>>

\* variant: the heights are exchanged whatever they are
SwapHeights_always(h1, h2) == <<h2, h1>>

\* lines 100-101: if h2 != 0 and h1 > h2: h1, h2 = h2, h1
SwapHeights(h1, h2) ==
  IF ~QIsZero(h2) /\ QLess(h2, h1) THEN <<h2, h1>> ELSE <<h1, h2>>

\* variant: an unknown label counts as an area of 0
UnknownArt_zero(art) == [ok |-> TRUE, val |-> <<0, 1>>, err |-> <<>>]

\* line 129: raise ValueError(f"Unbekannte Flaechenart: {art}")
UnknownArt(art) ==
  [ok |-> FALSE, val |-> <<0, 1>>,
   err |-> <<"Unbekannte Flaechenart: ">> \o art]

_berechne_flaeche(art, l, b, h1in, h2in) ==
  LET h1 == SwapHeights(h1in, h2in)[1]
      h2 == SwapHeights(h1in, h2in)[2]
      two == Q(2)
      diff == QAbs(QSub(h2, h1))
      schraege_wand == QAdd(QMul(QMul(<<1, 2>>, l), diff), QMul(l, h1))
      waende == QMul(QMul(two, h1), QAdd(l, b))
      Ok(v) == [ok |-> TRUE, val |-> v, err |-> <<>>]
  IN  IF art = Decke THEN Ok(QMul(l, b))
      ELSE IF art = WandRechteckig THEN Ok(QMul(l, h1))
      ELSE IF art = WandDreieckig THEN Ok(QMul(QMul(<<1, 2>>, l), h1))
      ELSE IF art = ZweiGegenueber THEN Ok(QMul(QMul(two, l), h1))
      ELSE IF art = ZweiNebeneinander THEN Ok(QMul(QAdd(l, b), h1))
      ELSE IF art = AlleOhneDecke THEN Ok(waende)
      ELSE IF art = AlleMitDecke THEN Ok(QAdd(waende, QMul(l, b)))
      ELSE IF art = SchraegOhneDecke THEN
        Ok(QAdd(QMul(two, schraege_wand), QMul(b, QAdd(h2, h1))))
      ELSE IF art = SchraegMitDecke THEN
        Ok(QAdd(QMul(two, schraege_wand),
                QMul(b, QAdd(QAdd(h2, h1),
                             QSqrt(QAdd(QMul(l, l), QMul(diff, diff)))))))
      ELSE IF art = FassadeFlachdach THEN Ok(waende)
      ELSE IF art = FassadeSatteldach THEN Ok(QAdd(waende, QMul(l, diff)))
      ELSE IF art = FassadeDoppelhaus THEN
        Ok(QAdd(QMul(two, schraege_wand), QMul(b, h1)))
      ELSE UnknownArt(art)

\* Calculator.calculate_single; ok = FALSE is the ValueError it raises
calculate_single(flaechenart, laenge, breite, hoehe1, hoehe2, stk) ==
  With(<<_parse_float(laenge), _parse_float(breite), _parse_float(hoehe1),
         _parse_float(hoehe2), _parse_float(stk)>>, LAMBDA f :
    LET l == f[1]
        b == f[2]
        h1 == f[3]
        h2 == f[4]
        n == f[5]
    IN  IF l.ok /\ b.ok /\ h1.ok /\ h2.ok /\ n.ok
        THEN With(_berechne_flaeche(flaechenart, l.val, b.val, h1.val,
                                    h2.val), LAMBDA a :
               IF a.ok THEN [ok |-> TRUE, val |-> Round2(QMul(a.val, n.val)),
                             err |-> <<>>]
               ELSE a)
        ELSE [ok |-> FALSE, val |-> <<0, 1>>,
              err |-> f[CHOOSE i \in 1..5 :
                          ~f[i].ok /\ \A j \in 1..(i - 1) : f[j].ok].err])

\* the default of the parameter stk in the signature of calculate_single
stk_default == Num(Q(1))

\* row["Flaechenart"] as _berechne_flaeche and its message see it: the cell
\* holds a text or is null
ArtOf(c) == IF c.t = "str" THEN c.v ELSE <<"nan">>

\* lines 46-57 of Calculator.calculate: the value written into the result
\* column of one row, the area or the text "Error: ..." of the exception
RowResult(row) ==
  With(<<_parse_float(row.Laenge), _parse_float(row.Breite),
         _parse_float(row.Hoehe1), _parse_float(row.Hoehe2)>>, LAMBDA f :
    IF \A i \in 1..4 : f[i].ok
    THEN With(_berechne_flaeche(ArtOf(row.Flaechenart), f[1].val, f[2].val,
                                f[3].val, f[4].val), LAMBDA a :
           IF a.ok THEN Num(a.val) ELSE Str(<<"Error: ">> \o a.err))
    ELSE Str(<<"Error: ">>
             \o f[CHOOSE i \in 1..4 :
                    ~f[i].ok /\ \A j \in 1..(i - 1) : f[j].ok].err))

\* variant: the first failing row ends the loop, the rows from there on keep
\* the None the result column was filled with
calculate_aborts(frame) ==
  LET bad == {i \in 1..Len(frame) : RowResult(frame[i]).t = "str"}
  IN  [rows |-> [i \in 1..Len(frame) |->
                   [frame[i] EXCEPT !.Ergebnis =
                      IF \E j \in bad : j <= i THEN NaN
                      ELSE RowResult(frame[i])]],
       alias |-> FALSE]

\* Calculator.calculate: works on df.copy() (alias = FALSE) and fills the
\* result column row by row
calculate(frame) ==
  [rows |-> [i \in 1..Len(frame) |->
               [frame[i] EXCEPT !.Ergebnis = RowResult(frame[i])]],
   alias |-> FALSE]

\* ------------------------------------------------------------------------
\* The row sequence self.df and the operations of SurveyTab on it
\* ------------------------------------------------------------------------
SetMin(S) == CHOOSE m \in S : \A n \in S : m <= n

\* variant: the lookup compares the text only, not its integer value
find_text_only(frame, pos_value) ==
  {i \in 1..Len(frame) : frame[i].Pos = Str(pos_value)}

\* SurveyTab._find_existing_pos_index: the index labels of the matching rows
_find_existing_pos_index(frame, pos_value) ==
  With(PyInt(pos_value), LAMBDA pos_int :
    IF pos_int.ok
    THEN {i \in 1..Len(frame) :
            \/ CellEq(frame[i].Pos, Str(pos_value))
            \/ CellEq(frame[i].Pos, Num(Q(pos_int.val)))}
    ELSE {i \in 1..Len(frame) : CellEq(frame[i].Pos, Str(pos_value))})

\* variant: the empty row goes together with the rows of the index
Drop_with_draft(frame, index, i) ==
  LET keep == {j \in i..Len(frame) : j \notin index /\ ~IsEmptyRow(frame[j])}
  IN  [k \in 1..Cardinality(keep) |->
         frame[CHOOSE j \in keep : Cardinality({m \in keep : m < j}) = k - 1]]

\* df.drop(index=index).reset_index(drop=True)
RECURSIVE Drop(_, _, _)
Drop(frame, index, i) ==
  IF i > Len(frame) THEN <<>>
  ELSE (IF i \in index THEN <<>> ELSE <<frame[i]>>) \o Drop(frame, index, i + 1)

\* the items update_pos_items puts into combo_pos
PosItems(frame) ==
  IF Len(frame) = 0 THEN {IntToText(1)}
  ELSE {IntToText(i) : i \in 1..Len(frame)}

\* the row handle_add_entry builds from the parsed fields
NewRow(pos, form, length, width, height1, height2, result) ==
  [Pos |-> Str(pos),
   Stk |-> Str(IF Strip(form.stk) = <<>> THEN <<"1">> ELSE Strip(form.stk)),
   Laenge |-> Num(length), Breite |-> Num(width),
   Hoehe1 |-> Num(height1), Hoehe2 |-> Num(height2),
   Flaechenart |-> Str(form.flaeche), Ergebnis |-> Num(result),
   Arbeit |-> Str(form.arbeit), Bemerkung |-> Str(form.note)]

\* variant: no new empty row after the entry
Upsert_no_empty_row(frame, pos, new_row) ==
  LET hit == {i \in 1..Len(frame) : frame[i].Pos = Str(pos)}
  IN  IF hit # {} THEN [frame EXCEPT ![SetMin(hit)] = new_row]
      ELSE [frame EXCEPT ![Len(frame)] = new_row]

\* variant: an existing position is not looked for, the entry is always added
Upsert_never_replaces(frame, pos, new_row) ==
  Append([frame EXCEPT ![Len(frame)] = new_row], empty_row)

\* variant: the entry is always concatenated, the trailing row is not reused
Upsert_always_concat(frame, pos, new_row) ==
  LET hit == {i \in 1..Len(frame) :
                frame[i].Pos = Str(pos) \/ frame[i].Pos = Num(Q(DigitsVal(pos)))}
  IN  IF hit # {} THEN [frame EXCEPT ![SetMin(hit)] = new_row]
      ELSE Append(Append(frame, new_row), empty_row)

\* lines 251-273 of handle_add_entry: replace in place, or fill the trailing
\* empty row (append when there is none) and add a new empty row
Upsert(frame, pos, new_row) ==
  With(_find_existing_pos_index(frame, pos), LAMBDA existing_index :
    LET last_row == frame[Len(frame)]
    IN  IF existing_index # {}
        THEN [frame EXCEPT ![SetMin(existing_index)] = new_row]
        ELSE Append(IF IsEmptyRow(last_row)
                    THEN [frame EXCEPT ![Len(frame)] = new_row]
                    ELSE Append(frame, new_row),
                    empty_row))

\* variant: the rows keep their position numbers
Renumber_keeps_pos(dropped) ==
  IF IsEmptyRow(dropped[Len(dropped)]) THEN dropped
  ELSE Append(dropped, empty_row)

\* variant: the trailing empty row is numbered with the others
Renumber_with_draft(dropped) ==
  Append([i \in 1..Len(dropped) |->
            [dropped[i] EXCEPT !.Pos = Str(IntToText(i))]],
         empty_row)

\* variant: no empty row is appended after the numbering
Renumber_no_draft(dropped) ==
  LET has_empty_row == IsEmptyRow(dropped[Len(dropped)])
      kept == IF has_empty_row THEN SubSeq(dropped, 1, Len(dropped) - 1)
              ELSE dropped
  IN  [i \in 1..Len(kept) |-> [kept[i] EXCEPT !.Pos = Str(IntToText(i))]]

\* lines 310-326 of handle_delete_entry on the frame left by the drop
Renumber(dropped) ==
  LET has_empty_row == IsEmptyRow(dropped[Len(dropped)])
      kept == IF has_empty_row THEN SubSeq(dropped, 1, Len(dropped) - 1)
              ELSE dropped
  IN  Append([i \in 1..Len(kept) |-> [kept[i] EXCEPT !.Pos = Str(IntToText(i))]],
             empty_row)

\* variant: only the column headers are kept
delete_actual_survey_headers_only == <<>>

\* SurveyTab.delete_actual_survey
delete_actual_survey_df == <<empty_row>>

\* SurveyTab._validate_customer_data
\* variant: every survey passes the validation
validate_always(name, frame) == TRUE

_validate_customer_data(name, frame) ==
  /\ Len(Strip(name)) >= 2
  /\ \E f \in {"Laenge", "Breite", "Hoehe1", "Hoehe2"} :
       LET c == frame[1][f]
       IN  /\ ~IsNa(c)
           /\ ~IsBlank(c)
           /\ ~(c.t = "num" /\ QIsZero(c.v))
           /\ ~(c.t = "str" /\ Strip(c.v) \in {<<"0">>, <<"0", ".", "0">>})

\* variant: the last row is cut only when all four dimensions are missing
_prepare_dataframe_all_missing(frame) ==
  LET last_row == frame[Len(frame)]
  IN  IF \A f \in {"Laenge", "Breite", "Hoehe1", "Hoehe2"} :
           IsNa(last_row[f]) \/ last_row[f] = Str(<<>>)
      THEN [rows |-> SubSeq(frame, 1, Len(frame) - 1), alias |-> FALSE]
      ELSE [rows |-> frame, alias |-> TRUE]

\* SurveyTab._prepare_dataframe: alias tells whether the value returned is
\* the frame object itself (return df) or a new one (df[:-1].copy())
_prepare_dataframe(frame) ==
  LET last_row == frame[Len(frame)]
  IN  IF \E f \in {"Laenge", "Breite", "Hoehe1", "Hoehe2"} :
           IsNa(last_row[f]) \/ last_row[f] = Str(<<>>)
      THEN [rows |-> SubSeq(frame, 1, Len(frame) - 1), alias |-> FALSE]
      ELSE [rows |-> frame, alias |-> TRUE]

\* Python refuses to instantiate a subclass of the ABC IFileHandler that
\* leaves one of its abstract methods undefined (TypeError)
IFileHandler == {"set_customer_data", "create_file", "build_filename",
                 "append_units", "set_save_path"}
PdfHandler == {"set_customer_data", "create_file", "open_pdf", "append_units",
               "build_filename", "set_save_path"}
ExcelHandler == {"set_customer_data", "build_filename", "create_file",
                 "append_units", "load_file", "_adjust_rows_and_columns"}
CanInstantiate(methods) == IFileHandler \subseteq methods

\* SurveyTab._get_handlers: the handlers in creation order, ok = FALSE when
\* a constructor raises
_get_handlers(document_type) ==
  LET wantPdf == document_type \in {"pdf", "pdf & excel"}
      wantExcel == document_type \in {"excel", "pdf & excel"}
  IN  [ok |-> /\ (wantPdf => CanInstantiate(PdfHandler))
              /\ (wantExcel => CanInstantiate(ExcelHandler)),
       handlers |-> (IF wantPdf THEN <<"pdf">> ELSE <<>>)
                    \o (IF wantExcel THEN <<"excel">> ELSE <<>>)]

\* CustomerBox (customer.py) as the set of methods the class defines; a call
\* of any other name raises AttributeError
CustomerBox == {"set_customer_data", "get_customer_data", "_init_ui",
                "_create_salutation_section", "_create_name_section",
                "_create_address_section", "_set_fixed_line_edit",
                "_copy_customer_adress"}

\* ------------------------------------------------------------------------
\* Inputs of the model
\* ------------------------------------------------------------------------
\* contents of the entry form when the add button is pressed
Form(length, width, height1, height2, stk, flaeche, arbeit, note) ==
  [length |-> length, width |-> width, height1 |-> height1,
   height2 |-> height2, stk |-> stk, flaeche |-> flaeche,
   arbeit |-> arbeit, note |-> note]

NoForm == Form(<<>>, <<>>, <<>>, <<>>, <<>>, <<>>, <<>>, <<>>)

FormRoom ==
  Form(<<"4">>, <<"3">>, <<"2", ",", "5">>, <<"0", ".", "0">>, <<"1">>,
       AlleMitDecke, <<"Streichen">>, <<>>)
FormWall ==
  Form(<<"2", "+", "2", "*", "3">>, <<"0", ".", "0">>, <<"2">>,
       <<"0", ".", "0">>, <<" ", "1", "+", "1">>, WandRechteckig,
       <<"Verputzen">>, <<"Flur">>)
FormBadLength == [FormRoom EXCEPT !.length = <<"a", "b", "c">>]
FormNoStk == [FormRoom EXCEPT !.stk = <<>>]
FormDivZero == [FormWall EXCEPT !.height1 = <<"1", "/", "0">>]
FormUnknownArt == [FormRoom EXCEPT !.flaeche = <<"Sonstiges">>]

FormInputs == {FormRoom, FormWall, FormBadLength, FormNoStk, FormDivZero,
               FormUnknownArt}

\* texts typed into the last-name field of the customer box
NameInputs == {<<>>, <<"W", " ">>, <<"W", "o", "l", "f">>}

\* the items of combo_ausgabe in the settings tab
DocumentTypes == {"pdf", "excel", "pdf & excel"}

\* answers to the question of check_save_before_action
Replies == {"Yes", "No", "Cancel"}

\* workbooks offered to the import dialog: the sheet "Daten" as read_excel
\* returns it and the last name on the sheet "Kundendaten"
SheetRow(pos, laenge, bemerkung) ==
  [Pos |-> pos, Stk |-> Num(Q(1)), Laenge |-> laenge, Breite |-> Num(Q(3)),
   Hoehe1 |-> Num(Q(2)), Hoehe2 |-> NaN, Flaechenart |-> Str(AlleMitDecke),
   Ergebnis |-> Num(Q(40)), Arbeit |-> Str(<<"Streichen">>),
   Bemerkung |-> bemerkung]

Workbooks ==
  [survey |-> [name |-> <<"W", "o", "l", "f">>,
               daten |-> <<SheetRow(Num(Q(1)), Num(Q(4)), NaN),
                           SheetRow(Str(<<"2">>), Str(<<"5">>), Str(<<"x">>))>>],
   broken |-> [name |-> <<"W", "o", "l", "f">>,
               daten |-> <<SheetRow(Num(Q(1)), Str(<<"a">>), NaN)>>]]

FileInputs == {"", "survey", "broken"}

\* ExcelHandler.load_file with table_columns given: Bemerkung.fillna(""),
\* astype(float) on the four dimension columns; any exception gives
\* (None, None), here ok = FALSE; so does a path that opens no workbook
ToFloat(c) ==
  IF c.t = "str" THEN
    With(PyFloat(c.v), LAMBDA f : [ok |-> f.ok, cell |-> Num(f.val)])
  ELSE [ok |-> TRUE, cell |-> c]

load_file(file_path) ==
  LET float_cols == {"Laenge", "Breite", "Hoehe1", "Hoehe2"}
      Conv(row) ==
        [c \in Columns |->
           IF c = "Bemerkung"
           THEN [ok |-> TRUE,
                 cell |-> IF IsNa(row[c]) THEN Str(<<>>) ELSE row[c]]
           ELSE IF c \in float_cols THEN ToFloat(row[c])
           ELSE [ok |-> TRUE, cell |-> row[c]]]
  IN  With(IF file_path \in DOMAIN Workbooks THEN Workbooks[file_path]
           ELSE [name |-> <<>>, daten |-> <<>>], LAMBDA wb :
        With([i \in 1..Len(wb.daten) |-> Conv(wb.daten[i])], LAMBDA conv :
          With(\A i \in 1..Len(conv) : \A c \in Columns : conv[i][c].ok,
               LAMBDA good :
            [ok |-> good /\ file_path \in DOMAIN Workbooks,
             customer_data |-> wb.name,
             data_df |-> IF good
                         THEN [i \in 1..Len(conv) |->
                                 [c \in Columns |-> conv[i][c].cell]]
                         ELSE <<>>])))

\* lines 211-239 of handle_add_entry: the five parsed fields and the result
\* of calculate_single for one form
ParseForm(form) ==
  With(<<_parse_number_or_raise(form.length, <<"Laenge">>),
         _parse_number_or_raise(form.width, <<"Breite">>),
         _parse_number_or_raise(form.height1, <<"Hoehe1">>),
         _parse_number_or_raise(form.height2, <<"Hoehe2">>),
         _parse_number_or_raise(form.stk, <<"Stk.">>)>>, LAMBDA f :
    LET length == f[1]
        width == f[2]
        height1 == f[3]
        height2 == f[4]
        stk == f[5]
    IN  [length |-> length, width |-> width, height1 |-> height1,
         height2 |-> height2, stk |-> stk,
         result |-> calculate_single(form.flaeche, Num(length.val),
                                     Num(width.val), Num(height1.val),
                                     Num(height2.val), Num(stk.val))])

\* ParseForm tabulated over the forms of the model
ParsedForms == [form \in FormInputs |-> ParseForm(form)]

\* ------------------------------------------------------------------------
\* State
\* ------------------------------------------------------------------------
VARIABLES
  df,                  \* SurveyTab.df: the row sequence
  is_file_up_to_date,  \* SurveyTab.is_file_up_to_date
  last_name,           \* text of CustomerBox.edit_last_name
  Ausgabedokument,     \* config["Ausgabedokument"]
  handed,              \* what the last step passed to create_file, in order
  found,               \* result of the last _find_existing_pos_index of a step
  prev_df,             \* df before the last step
  last_op              \* the last step: handler, its inputs, how it ended

vars == <<df, is_file_up_to_date, last_name, Ausgabedokument, handed, found,
          prev_df, last_op>>

Op(name, pos, form, arg, outcome) ==
  [name |-> name, pos |-> pos, form |-> form, arg |-> arg,
   outcome |-> outcome, reply |-> ""]

\* a step of a handler that asks check_save_before_action first, with the
\* answer given ("" when nothing was asked)
Asked(op, reply) == [op EXCEPT !.reply = reply]

\* SurveyTab.__init__ (the customer box is empty, the configuration holds the
\* default document type)
Init ==
  /\ df = <<empty_row>>
  /\ is_file_up_to_date = TRUE
  /\ last_name = <<>>
  /\ Ausgabedokument = "pdf"
  /\ handed = <<>>
  /\ found = {}
  /\ prev_df = <<empty_row>>
  /\ last_op = Op("__init__", <<>>, NoForm, "", "")

\* ------------------------------------------------------------------------
\* Export
\* ------------------------------------------------------------------------
\* SurveyTab.generate_survey.  result: "refused" (returns False), "raised"
\* (an exception leaves the method) or "exported" (returns True).  Every
\* handler writes below its output_path, the configured Speicherort.
\* the two path attributes of a handler: output_path is set by __init__
\* from the configuration (pdf_handler.py 34, excel_handler.py 21),
\* save_path by set_save_path (pdf_handler.py 203-206), which _get_handlers
\* calls only for a folder that was selected
HandlerPaths(path_to_save) ==
  [output_path |-> "Speicherort", save_path |-> path_to_save]

\* the folder create_file writes into: os.path.join(self.output_path, ...)
FileDir(paths) == paths.output_path

\* lines 72-80 of generate_survey: the rows prepared, the handlers built and
\* one file created by each; ok = FALSE when a constructor raises
export_files(frame, document_type, path_to_save) ==
  With(_prepare_dataframe(frame), LAMBDA result_df :
    With(_get_handlers(document_type), LAMBDA h :
      IF ~h.ok THEN [ok |-> FALSE, handed |-> <<>>]
      ELSE [ok |-> TRUE,
            handed |-> [i \in 1..Len(h.handlers) |->
                          [handler |-> h.handlers[i],
                           rows |-> result_df.rows,
                           alias |-> result_df.alias,
                           dir |-> FileDir(HandlerPaths(path_to_save))]]]))

generate_survey(frame, name, document_type, path_to_save) ==
  LET none == [result |-> "refused", handed |-> <<>>]
      raised == [result |-> "raised", handed |-> <<>>]
  IN  IF Len(Strip(name)) < 2 THEN none
      ELSE IF frame = <<>> THEN raised
      ELSE IF ~_validate_customer_data(name, frame) THEN none
      ELSE IF "get_translated_customer_data" \notin CustomerBox THEN raised
      ELSE
        With(export_files(frame, document_type, path_to_save), LAMBDA e :
          IF ~e.ok THEN raised
          ELSE [result |-> "exported", handed |-> e.handed])

\* variant: every answer but Yes lets the action proceed
check_save_before_action_unless_yes(reply) ==
  IF is_file_up_to_date
  THEN [go |-> "proceed", saved |-> TRUE, handed |-> <<>>]
  ELSE IF reply = "Yes" THEN
    With(generate_survey(df, last_name, Ausgabedokument, ""), LAMBDA g :
      [go |-> IF g.result = "exported" THEN "proceed"
              ELSE IF g.result = "raised" THEN "raised" ELSE "abandon",
       saved |-> g.result = "exported",
       handed |-> g.handed])
  ELSE [go |-> "proceed", saved |-> FALSE, handed |-> <<>>]

\* SurveyTab.check_save_before_action: go is "proceed" (True), "abandon"
\* (False) or "raised"; saved is is_file_up_to_date afterwards
check_save_before_action(reply) ==
  IF is_file_up_to_date
  THEN [go |-> "proceed", saved |-> TRUE, handed |-> <<>>]
  ELSE IF reply = "Yes" THEN
    With(generate_survey(df, last_name, Ausgabedokument, ""), LAMBDA g :
      [go |-> IF g.result = "exported" THEN "proceed"
              ELSE IF g.result = "raised" THEN "raised" ELSE "abandon",
       saved |-> g.result = "exported",
       handed |-> g.handed])
  ELSE [go |-> IF reply = "No" THEN "proceed" ELSE "abandon",
        saved |-> FALSE, handed |-> <<>>]

\* the question is asked only when the survey is not up to date
ReplyChoices == IF is_file_up_to_date THEN {""} ELSE Replies

\* SurveyTab.save and SurveyTab.save_under (folder "" = dialog cancelled)
save_to(name, folder) ==
  \E g \in {generate_survey(df, last_name, Ausgabedokument, folder)} :
      /\ handed' = g.handed
      /\ is_file_up_to_date' =
           IF g.result = "exported" THEN TRUE ELSE is_file_up_to_date
      /\ last_op' = Op(name, <<>>, NoForm, folder, g.result)
      /\ prev_df' = df
      /\ found' = {}
      /\ UNCHANGED <<df, last_name, Ausgabedokument>>

save == save_to("save", "")

save_under ==
  \E folder \in {"", "folder"} :
    IF folder = ""
    THEN /\ last_op' = Op("save_under", <<>>, NoForm, "", "cancelled")
         /\ prev_df' = df
         /\ handed' = <<>>
         /\ found' = {}
         /\ UNCHANGED <<df, is_file_up_to_date, last_name, Ausgabedokument>>
    ELSE save_to("save_under", folder)

\* ------------------------------------------------------------------------
\* Handlers of the survey tab
\* ------------------------------------------------------------------------
\* variant: the table is redrawn without set_save_status(False)
update_table_area_keeps(saved) == saved

\* SurveyTab.update_table_area: the save status it leaves, whatever the
\* status was (set_save_status(False), line 296)
update_table_area(saved) == FALSE

\* variant: a handler that fails still marks the survey as changed
Unchanged_marks_unsaved(op) ==
  /\ last_op' = op
  /\ prev_df' = df
  /\ handed' = <<>>
  /\ found' = {}
  /\ is_file_up_to_date' = FALSE
  /\ UNCHANGED <<df, last_name, Ausgabedokument>>

\* a handler that ends without touching the rows
Unchanged(op) ==
  /\ last_op' = op
  /\ prev_df' = df
  /\ handed' = <<>>
  /\ found' = {}
  /\ UNCHANGED <<df, is_file_up_to_date, last_name, Ausgabedokument>>

\* SurveyTab.handle_add_entry with the position selected in combo_pos and
\* the form contents
handle_add_entry(pos, form) ==
  \E parsed \in {ParsedForms[form]},
     existing_index \in {_find_existing_pos_index(df, pos)} :
  LET length == parsed.length
      width == parsed.width
      height1 == parsed.height1
      height2 == parsed.height2
      stk == parsed.stk
      result == parsed.result
      new_row == NewRow(pos, form, length.val, width.val, height1.val,
                        height2.val, result.val)
  IN  IF ~(length.ok /\ width.ok /\ height1.ok /\ height2.ok /\ stk.ok)
      THEN Unchanged(Op("handle_add_entry", pos, form, "", "invalid"))
      ELSE IF ~result.ok \/ df = <<>>
      THEN Unchanged(Op("handle_add_entry", pos, form, "", "raised"))
      ELSE
        /\ existing_index = {} => Len(df) <= MaxRows
        /\ df' = Upsert(df, pos, new_row)
        /\ is_file_up_to_date' = update_table_area(is_file_up_to_date)
        /\ found' = existing_index
        /\ prev_df' = df
        /\ handed' = <<>>
        /\ last_op' = Op("handle_add_entry", pos, form, "",
                         IF existing_index # {} THEN "replaced"
                         ELSE "appended")
        /\ UNCHANGED <<last_name, Ausgabedokument>>

\* SurveyTab.handle_delete_entry with the position selected in combo_pos.
\* The drop is assigned to self.df before the last row is inspected, so an
\* IndexError there leaves the dropped frame behind.
handle_delete_entry(pos) ==
  \E pos_to_delete \in {Strip(pos)} :
  \E index \in {_find_existing_pos_index(df, pos_to_delete)} :
  \E dropped \in {Drop(df, index, 1)} :
      IF pos_to_delete = <<>>
      THEN Unchanged(Op("handle_delete_entry", pos, NoForm, "", "returned"))
      ELSE
        /\ df' = IF dropped = <<>> THEN dropped ELSE Renumber(dropped)
        /\ is_file_up_to_date' =
             IF dropped = <<>> THEN is_file_up_to_date
             ELSE update_table_area(is_file_up_to_date)
        /\ found' = index
        /\ prev_df' = df
        /\ handed' = <<>>
        /\ last_op' = Op("handle_delete_entry", pos, NoForm, "",
                         IF dropped = <<>> THEN "raised"
                         ELSE IF index = {} THEN "absent" ELSE "deleted")
        /\ UNCHANGED <<last_name, Ausgabedokument>>

\* SurveyTab.new_survey: delete_actual_survey runs, then the call of
\* customerbox.clear_inputs decides whether the handler reaches
\* set_save_status(True)
new_survey(reply) ==
  \E c \in {check_save_before_action(reply)} :
  LET cleared == "clear_inputs" \in CustomerBox
  IN  /\ prev_df' = df
      /\ handed' = c.handed
      /\ found' = {}
      /\ UNCHANGED Ausgabedokument
      /\ IF c.go = "proceed"
         THEN /\ df' = delete_actual_survey_df
              /\ last_name' = IF cleared THEN <<>> ELSE last_name
              /\ is_file_up_to_date' =
                   IF cleared THEN TRUE
                   ELSE update_table_area(is_file_up_to_date)
              /\ last_op' = Asked(Op("new_survey", <<>>, NoForm, reply,
                                     IF cleared THEN "done"
                                     ELSE "reset_raised"), reply)
         ELSE /\ is_file_up_to_date' = c.saved
              /\ last_op' = Asked(Op("new_survey", <<>>, NoForm, reply,
                                     IF c.go = "raised" THEN "raised"
                                     ELSE "abandoned"), reply)
              /\ UNCHANGED <<df, last_name>>

\* SurveyTab.import_survey with the file chosen in the dialog ("" = none)
import_survey(reply, file_path) ==
  \E c \in {check_save_before_action(reply)}, l \in {load_file(file_path)} :
  LET loads == /\ c.go = "proceed"
               /\ file_path # ""
               /\ CanInstantiate(ExcelHandler)
               /\ l.ok
  IN  /\ prev_df' = df
      /\ handed' = c.handed
      /\ found' = {}
      /\ UNCHANGED Ausgabedokument
      /\ IF loads
         THEN /\ df' = Append(l.data_df, empty_row)
              /\ last_name' = l.customer_data
              /\ is_file_up_to_date' = TRUE
              /\ last_op' = Asked(Op("import_survey", <<>>, NoForm,
                                     file_path, "loaded"), reply)
         ELSE /\ is_file_up_to_date' = c.saved
              /\ last_op' = Asked(Op("import_survey", <<>>, NoForm,
                                     file_path,
                                     IF c.go = "raised" THEN "raised"
                                     ELSE IF c.go = "abandon" THEN "abandoned"
                                     ELSE IF file_path = "" THEN "no_file"
                                     ELSE IF ~CanInstantiate(ExcelHandler)
                                     THEN "handler_error"
                                     ELSE "load_failed"), reply)
              /\ UNCHANGED <<df, last_name>>

\* SurveyGUI.closeEvent: the window is closed ("accepted"), stays open
\* ("ignored"), or the export started by the answer Yes raises
closeEvent(reply) ==
  \E c \in {check_save_before_action(reply)} :
      /\ prev_df' = df
      /\ handed' = c.handed
      /\ found' = {}
      /\ is_file_up_to_date' = c.saved
      /\ last_op' = Asked(Op("closeEvent", <<>>, NoForm, reply,
                             IF c.go = "proceed" THEN "accepted"
                             ELSE IF c.go = "raised" THEN "raised"
                             ELSE "ignored"), reply)
      /\ UNCHANGED <<df, last_name, Ausgabedokument>>

\* the window was closed: no handler runs any more
Closed == last_op.name = "closeEvent" /\ last_op.outcome = "accepted"

\* SurveyTab.load_entry_from_pos: another item of combo_pos is selected
load_entry_from_pos(pos) ==
  /\ found' = _find_existing_pos_index(df, pos)
  /\ last_op' = Op("load_entry_from_pos", pos, NoForm, "", "")
  /\ prev_df' = df
  /\ handed' = <<>>
  /\ UNCHANGED <<df, is_file_up_to_date, last_name, Ausgabedokument>>

\* the user types into the last-name field of the customer box
edit_last_name(text) ==
  /\ text # last_name
  /\ last_name' = text
  /\ last_op' = Op("edit_last_name", <<>>, NoForm, "", "")
  /\ prev_df' = df
  /\ handed' = <<>>
  /\ found' = {}
  /\ UNCHANGED <<df, is_file_up_to_date, Ausgabedokument>>

\* SettingsTab._save_settings with another document type selected
_save_settings(document_type) ==
  /\ document_type # Ausgabedokument
  /\ Ausgabedokument' = document_type
  /\ last_op' = Op("_save_settings", <<>>, NoForm, document_type, "")
  /\ prev_df' = df
  /\ handed' = <<>>
  /\ found' = {}
  /\ UNCHANGED <<df, is_file_up_to_date, last_name>>

\* the position texts the delete handler is run with: the items of combo_pos
\* and the empty text its guard of lines 305-306 is written for
DeleteTexts(frame) == PosItems(frame) \cup {<<>>}

Next ==
  /\ ~Closed
  /\ \/ \E pos \in PosItems(df), form \in FormInputs :
          handle_add_entry(pos, form)
     \/ \E pos \in DeleteTexts(df) : handle_delete_entry(pos)
     \/ \E reply \in ReplyChoices : new_survey(reply)
     \/ \E reply \in ReplyChoices, file_path \in FileInputs :
          import_survey(reply, file_path)
     \/ \E reply \in ReplyChoices : closeEvent(reply)
     \/ \E pos \in PosItems(df) : load_entry_from_pos(pos)
     \/ save
     \/ save_under
     \/ \E text \in NameInputs : edit_last_name(text)
     \/ \E document_type \in DocumentTypes : _save_settings(document_type)

Spec == Init /\ [][Next]_vars

\* ------------------------------------------------------------------------
\* The store functions on arbitrary frames
\* ------------------------------------------------------------------------
\* longest frame handed to a store function on its own
MaxPureLen == 2

\* rows as a frame can hold them: positions kept as text or as number,
\* a dimension that is a number, empty, null or a text that is no number;
\* the empty row; a null row
PureBase == NewRow(<<"1">>, FormRoom, Q(4), Q(3), <<5, 2>>, Q(0), <<47, 1>>)

PureRows ==
  {[PureBase EXCEPT !.Pos = p, !.Hoehe2 = d] :
     p \in {Str(<<"1">>), Str(<<"2">>), Num(Q(1)), NaN},
     d \in {Num(Q(0)), Str(<<>>), NaN, Str(<<"x">>)}}
  \cup {empty_row, [c \in Columns |-> NaN]}

PureFrames ==
  UNION {[1..n -> PureRows] : n \in 1..MaxPureLen}

\* position texts looked up
PureTexts == {<<"1">>, <<"2">>, <<"3">>, <<" ", "1">>, <<"0", "1">>, <<"x">>,
              <<>>}

\* the entry handed to Upsert
PureEntry(pos) ==
  NewRow(pos, FormWall, Q(8), Q(0), Q(2), Q(0), <<32, 1>>)

InitPure ==
  /\ df \in PureFrames
  /\ prev_df = df
  /\ is_file_up_to_date = TRUE
  /\ last_name = <<>>
  /\ Ausgabedokument = "pdf"
  /\ handed = <<>>
  /\ found = {}
  /\ last_op = Op("frame", <<>>, NoForm, "", "")

\* _find_existing_pos_index(text) on the frame
pure_find(text) ==
  /\ last_op.name = "frame"
  /\ found' = _find_existing_pos_index(df, text)
  /\ last_op' = Op("_find_existing_pos_index", text, NoForm, "", "")
  /\ UNCHANGED <<df, prev_df, is_file_up_to_date, last_name, Ausgabedokument,
                 handed>>

\* result_df = _prepare_dataframe(df), then create_file(result_df, ...):
\* both handlers rename the columns on df.copy() (append_units)
pure_prepare ==
  LET result_df == _prepare_dataframe(df)
  IN  /\ last_op.name = "frame"
      /\ handed' = <<[handler |-> "pdf", rows |-> result_df.rows,
                      alias |-> result_df.alias, dir |-> "Speicherort"]>>
      /\ last_op' = Op("_prepare_dataframe", <<>>, NoForm, "", "")
      /\ UNCHANGED <<df, prev_df, is_file_up_to_date, last_name,
                     Ausgabedokument, found>>

\* lines 251-273 of handle_add_entry on the frame
pure_upsert(pos) ==
  /\ last_op.name = "frame"
  /\ df' = Upsert(df, pos, PureEntry(pos))
  /\ found' = _find_existing_pos_index(df, pos)
  /\ last_op' = Op("Upsert", pos, NoForm, "", "")
  /\ UNCHANGED <<prev_df, is_file_up_to_date, last_name, Ausgabedokument,
                 handed>>

\* lines 72-80 of generate_survey on the frame, for one document type and
\* one folder ("" when none was selected)
pure_export(document_type, path_to_save) ==
  \E e \in {export_files(df, document_type, path_to_save)} :
    /\ last_op.name = "frame"
    /\ handed' = e.handed
    /\ last_op' = Op("export_files", <<>>, NoForm, path_to_save,
                     [document_type |-> document_type, ok |-> e.ok])
    /\ UNCHANGED <<df, prev_df, is_file_up_to_date, last_name,
                   Ausgabedokument, found>>

NextPure ==
  \/ \E text \in PureTexts : pure_find(text)
  \/ pure_prepare
  \/ \E document_type \in DocumentTypes, path_to_save \in {"", "folder"} :
       pure_export(document_type, path_to_save)
  \/ \E pos \in {<<"1">>, <<"3">>} : pure_upsert(pos)

SpecPure == InitPure /\ [][NextPure]_vars

\* ------------------------------------------------------------------------
\* The calculator on its own
\* ------------------------------------------------------------------------
\* longest frame handed to Calculator.calculate
MaxBatchLen == 2

\* area types: the twelve labels and two values that are none of them
CalcLabels == Flaechenarten \cup {<<"Sonstiges">>, <<>>}

\* lengths, widths and heights handed to the calculator
CalcLengths == {<<0, 1>>, <<1, 2>>, <<4, 1>>}
CalcWidths == {<<0, 1>>, <<3, 1>>}
CalcHeights == {<<0, 1>>, <<2, 1>>, <<5, 2>>, <<-1, 1>>}

\* quantities as calculate_single can be given them
CalcStk == {Num(Q(1)), Num(<<3, 2>>), Str(<<"2">>), Str(<<>>), NaN,
            Str(<<"x">>)}

CalcArgs ==
  [flaechenart : CalcLabels, laenge : CalcLengths, breite : CalcWidths,
   hoehe1 : CalcHeights, hoehe2 : CalcHeights, stk : CalcStk]

\* rows of a frame handed to Calculator.calculate: two rows that compute,
\* the empty row, a null row, a row with a text that is no number and a
\* row with an unknown area type
BatchGood == NewRow(<<"1">>, FormRoom, Q(4), Q(3), <<5, 2>>, Q(0), <<47, 1>>)
BatchRows ==
  {BatchGood,
   [BatchGood EXCEPT !.Flaechenart = Str(SchraegMitDecke),
                     !.Laenge = Str(<<"4">>),
                     !.Hoehe1 = Str(<<"2", ",", "5">>),
                     !.Hoehe2 = Num(Q(2))],
   [BatchGood EXCEPT !.Breite = Str(<<"x">>)],
   [BatchGood EXCEPT !.Flaechenart = Str(<<"Sonstiges">>)],
   empty_row,
   [c \in Columns |-> NaN]}

BatchFrames == UNION {[1..n -> BatchRows] : n \in 1..MaxBatchLen}

InitCalc ==
  /\ \/ /\ df = <<empty_row>>
        /\ \E args \in CalcArgs : last_op = Op("args", <<>>, args, "", "")
     \/ /\ df \in BatchFrames
        /\ last_op = Op("rows", <<>>, NoForm, "", "")
  /\ prev_df = df
  /\ is_file_up_to_date = TRUE
  /\ last_name = <<>>
  /\ Ausgabedokument = "pdf"
  /\ handed = <<>>
  /\ found = {}

\* _berechne_flaeche(art, l, b, h1, h2)
calc_area ==
  /\ last_op.name = "args"
  /\ last_op.form.stk = Num(Q(1))
  /\ last_op' =
       Op("_berechne_flaeche", <<>>, last_op.form, "",
          _berechne_flaeche(last_op.form.flaechenart, last_op.form.laenge,
                            last_op.form.breite, last_op.form.hoehe1,
                            last_op.form.hoehe2))
  /\ UNCHANGED <<df, prev_df, is_file_up_to_date, last_name, Ausgabedokument,
                 handed, found>>

\* calculate_single(flaechenart, laenge, breite, hoehe1, hoehe2, stk)
calc_single ==
  /\ last_op.name = "args"
  /\ last_op' =
       Op("calculate_single", <<>>, last_op.form, "",
          calculate_single(last_op.form.flaechenart,
                           Num(last_op.form.laenge), Num(last_op.form.breite),
                           Num(last_op.form.hoehe1), Num(last_op.form.hoehe2),
                           last_op.form.stk))
  /\ UNCHANGED <<df, prev_df, is_file_up_to_date, last_name, Ausgabedokument,
                 handed, found>>

\* calculate_single(flaechenart, laenge, breite, hoehe1, hoehe2): stk is left
\* to its default
calc_single_default ==
  /\ last_op.name = "args"
  /\ last_op.form.stk = Num(Q(1))
  /\ last_op' =
       Op("calculate_single_default", <<>>, last_op.form, "",
          calculate_single(last_op.form.flaechenart,
                           Num(last_op.form.laenge), Num(last_op.form.breite),
                           Num(last_op.form.hoehe1), Num(last_op.form.hoehe2),
                           stk_default))
  /\ UNCHANGED <<df, prev_df, is_file_up_to_date, last_name, Ausgabedokument,
                 handed, found>>

\* Calculator.calculate(df)
calc_batch ==
  /\ last_op.name = "rows"
  /\ last_op' = Op("calculate", <<>>, NoForm, "", calculate(df))
  /\ UNCHANGED <<df, prev_df, is_file_up_to_date, last_name, Ausgabedokument,
                 handed, found>>

NextCalc ==
  \/ calc_area
  \/ calc_single
  \/ calc_single_default
  \/ calc_batch

SpecCalc == InitCalc /\ [][NextCalc]_vars

\* ------------------------------------------------------------------------
\* The parser of the input fields on its own
\* ------------------------------------------------------------------------
\* numbers as they are typed, with the fraction they denote
NumberCases ==
  {[text |-> <<"2">>, q |-> <<2, 1>>],
   [text |-> <<"3">>, q |-> <<3, 1>>],
   [text |-> <<"3", ",", "5">>, q |-> <<7, 2>>]}

Operators == {"+", "-", "*", "/"}

\* expressions of three numbers and two operators: as they stand ("flat"),
\* with the first two or the last two numbers in parentheses, each with or
\* without spaces around every number and operator; and the numbers alone
ExprCases ==
  {e \in [shape : {"number", "flat", "left", "right"}, a : NumberCases,
          o1 : Operators, b : NumberCases, o2 : Operators, c : NumberCases,
          pad : BOOLEAN] :
     e.shape = "number" => e.o1 = "+" /\ e.o2 = "+" /\ e.b = e.a /\ e.c = e.a}

\* the text typed for an expression
TextOf(e) ==
  LET sp == IF e.pad THEN <<" ">> ELSE <<>>
      A == sp \o e.a.text \o sp
      B == sp \o e.b.text \o sp
      C == sp \o e.c.text \o sp
  IN  CASE e.shape = "number" -> A
        [] e.shape = "flat" -> A \o <<e.o1>> \o B \o <<e.o2>> \o C
        [] e.shape = "left" ->
             sp \o <<"(">> \o A \o <<e.o1>> \o B \o <<")">> \o <<e.o2>> \o C
        [] e.shape = "right" ->
             A \o <<e.o1>> \o <<"(">> \o B \o <<e.o2>> \o C \o <<")">> \o sp

Raw(text, why, q) == [shape |-> "raw", text |-> text, why |-> why, q |-> q]

\* further texts: some that have a value, some that fail the pattern and
\* some that pass the pattern and do not evaluate
RawCases ==
  {Raw(<<"-", "3">>, "value", <<-3, 1>>),
   Raw(<<"2", "*", "-", "3">>, "value", <<-6, 1>>),
   Raw(<<".", "5">>, "value", <<1, 2>>),
   Raw(<<"5", ".">>, "value", <<5, 1>>),
   Raw(<<"(", "(", "2", ")", ")">>, "value", <<2, 1>>),
   Raw(<<"1", "0", "/", "4">>, "value", <<5, 2>>),
   Raw(<<"\t", "2", "\n">>, "value", <<2, 1>>),
   Raw(<<>>, "empty", <<0, 1>>),
   Raw(<<" ", " ">>, "empty", <<0, 1>>),
   Raw(<<"\t">>, "empty", <<0, 1>>),
   Raw(<<"a">>, "character", <<0, 1>>),
   Raw(<<"2", "a">>, "character", <<0, 1>>),
   Raw(<<"1", "e", "3">>, "character", <<0, 1>>),
   Raw(<<"2", "^", "3">>, "character", <<0, 1>>),
   Raw(<<"3", ";", "5">>, "character", <<0, 1>>),
   Raw(<<"1", "\t", "2">>, "character", <<0, 1>>),
   Raw(<<"2", "=", "2">>, "character", <<0, 1>>),
   Raw(<<"1", "_", "0">>, "character", <<0, 1>>),
   Raw(<<"1", "/", "0">>, "division by zero", <<0, 1>>),
   Raw(<<"2", "/", "(", "3", "-", "3", ")">>, "division by zero", <<0, 1>>),
   Raw(<<"(", "1", "+", "2">>, "unbalanced parentheses", <<0, 1>>),
   Raw(<<"1", "+", "2", ")">>, "unbalanced parentheses", <<0, 1>>),
   Raw(<<")", "(">>, "unbalanced parentheses", <<0, 1>>),
   Raw(<<"1", "+">>, "missing operand", <<0, 1>>),
   Raw(<<"*", "2">>, "missing operand", <<0, 1>>),
   Raw(<<"2", "*", "/", "3">>, "missing operand", <<0, 1>>),
   Raw(<<"+">>, "missing operand", <<0, 1>>),
   Raw(<<"(", ")">>, "missing operand", <<0, 1>>),
   Raw(<<"1", " ", "2">>, "juxtaposed numbers", <<0, 1>>),
   Raw(<<"1", ".", ".", "2">>, "juxtaposed numbers", <<0, 1>>),
   Raw(<<"2", "(", "3", ")">>, "juxtaposed numbers", <<0, 1>>),
   Raw(<<"0", "1", "2">>, "leading zero", <<0, 1>>),
   Raw(<<"2", "*", "*", "3">>, "other operator", <<8, 1>>),
   Raw(<<"2", "*", "*", "-", "1">>, "other operator", <<1, 2>>),
   Raw(<<"7", "/", "/", "2">>, "other operator", <<3, 1>>),
   Raw(<<"7", "/", "/", "0">>, "other operator", <<0, 1>>)}

\* the field names handed to the parser by the add handler
FieldNames == {<<"Laenge">>, <<"Stk.">>}

Batch(cell, kind, q) == [cell |-> cell, kind |-> kind, q |-> q]

\* values handed to Calculator._parse_float: null, the empty text, texts of
\* whitespace, numbers, decimal texts with the fraction they denote, further
\* texts float() reads, and texts that are no number
BatchCases ==
  {Batch(NaN, "null", <<0, 1>>),
   Batch(Str(<<>>), "empty", <<0, 1>>),
   Batch(Str(<<" ">>), "blank", <<0, 1>>),
   Batch(Str(<<" ", "\t", " ">>), "blank", <<0, 1>>),
   Batch(Num(<<7, 2>>), "number", <<7, 2>>),
   Batch(Num(<<0, 1>>), "number", <<0, 1>>),
   Batch(Str(<<"3", ".", "5">>), "decimal", <<7, 2>>),
   Batch(Str(<<"3", ",", "5">>), "decimal", <<7, 2>>),
   Batch(Str(<<" ", "3", ",", "5", " ">>), "decimal", <<7, 2>>),
   Batch(Str(<<"-", "3", "0">>), "decimal", <<-30, 1>>),
   Batch(Str(<<"+", "2", "0">>), "decimal", <<20, 1>>),
   Batch(Str(<<",", "5", "0">>), "decimal", <<1, 2>>),
   Batch(Str(<<"1", "5", ".">>), "decimal", <<15, 1>>),
   Batch(Str(<<"0", "1", "2">>), "decimal", <<12, 1>>),
   Batch(Str(<<"0", ",", "5", "0">>), "decimal", <<1, 2>>),
   Batch(Str(<<"1", "0", "0">>), "decimal", <<100, 1>>),
   Batch(Str(<<"0">>), "decimal", <<0, 1>>),
   Batch(Str(<<"1", "e", "3">>), "float", <<1000, 1>>),
   Batch(Str(<<"2", ",", "5", "E", "-", "1">>), "float", <<1, 4>>),
   Batch(Str(<<"1", "_", "0">>), "float", <<10, 1>>),
   Batch(Str(<<"i", "n", "f">>), "nonfinite", <<0, 1>>),
   Batch(Str(<<"-", "I", "n", "f", "i", "n", "i", "t", "y">>), "nonfinite",
         <<0, 1>>),
   Batch(Str(<<"n", "a", "n">>), "nonfinite", <<0, 1>>),
   Batch(Str(<<"N", "a", "N">>), "nonfinite", <<0, 1>>),
   Batch(Str(<<"x">>), "other", <<0, 1>>),
   Batch(Str(<<"1", " ", "2">>), "other", <<0, 1>>),
   Batch(Str(<<"1", ",", "2", ",", "3">>), "other", <<0, 1>>),
   Batch(Str(<<"2", "+", "2">>), "other", <<0, 1>>),
   Batch(Str(<<"1", "/", "2">>), "other", <<0, 1>>),
   Batch(Str(<<"(", "2", ")">>), "other", <<0, 1>>),
   Batch(Str(<<"-", "-", "1">>), "other", <<0, 1>>),
   Batch(Str(<<"1", "2", "e">>), "other", <<0, 1>>),
   Batch(Str(<<"_", "1", "2">>), "other", <<0, 1>>),
   Batch(Str(<<"1", "_", "_", "0">>), "other", <<0, 1>>),
   Batch(Str(<<".">>), "other", <<0, 1>>),
   Batch(Str(<<"-">>), "other", <<0, 1>>),
   Batch(Str(<<"3", ",", "5", "m">>), "other", <<0, 1>>),
   Batch(Str(<<"3", " ", "m">>), "other", <<0, 1>>)}

InitParse ==
  /\ \/ \E feldname \in FieldNames :
          \/ \E e \in ExprCases :
               last_op = Op("text", TextOf(e), e, feldname, "")
          \/ \E r \in RawCases : last_op = Op("text", r.text, r, feldname, "")
     \/ \E b \in BatchCases : last_op = Op("cell", <<>>, b, "", "")
  /\ df = <<empty_row>>
  /\ prev_df = df
  /\ is_file_up_to_date = TRUE
  /\ last_name = <<>>
  /\ Ausgabedokument = "pdf"
  /\ handed = <<>>
  /\ found = {}

\* _parse_number_or_raise(text, feldname)
parse_number ==
  /\ last_op.name = "text"
  /\ last_op' = Op("_parse_number_or_raise", last_op.pos, last_op.form,
                   last_op.arg,
                   _parse_number_or_raise(last_op.pos, last_op.arg))
  /\ UNCHANGED <<df, prev_df, is_file_up_to_date, last_name, Ausgabedokument,
                 handed, found>>

\* Calculator._parse_float(value)
parse_float ==
  /\ last_op.name = "cell"
  /\ last_op' = Op("_parse_float", <<>>, last_op.form, "",
                   _parse_float(last_op.form.cell))
  /\ UNCHANGED <<df, prev_df, is_file_up_to_date, last_name, Ausgabedokument,
                 handed, found>>

NextParse ==
  \/ parse_number
  \/ parse_float

SpecParse == InitParse /\ [][NextParse]_vars

\* ------------------------------------------------------------------------
\* Properties
\* ------------------------------------------------------------------------
\* a draft row: every field the empty string, or every field null
AllEmpty(row) == \A c \in Columns : row[c] = Str(<<>>)
Draft(row) == AllEmpty(row) \/ \A c \in Columns : row[c] = NaN

\* the row a committed add holds, written out field by field
CommittedEntry(pos, form) ==
  With(ParsedForms[form], LAMBDA p :
    [Pos |-> Str(pos), Stk |-> Str(Strip(form.stk)),
     Laenge |-> Num(p.length.val), Breite |-> Num(p.width.val),
     Hoehe1 |-> Num(p.height1.val), Hoehe2 |-> Num(p.height2.val),
     Flaechenart |-> Str(form.flaeche), Ergebnis |-> Num(p.result.val),
     Arbeit |-> Str(form.arbeit), Bemerkung |-> Str(form.note)])

AddCommitted ==
  /\ last_op.name = "handle_add_entry"
  /\ last_op.outcome \in {"replaced", "appended"}

\* the position text names a row of the frame, as text or as integer
HasPos(row, pos) ==
  \/ (row.Pos.t = "str" /\ row.Pos.v = pos)
  \/ (PyInt(pos).ok /\ row.Pos.t = "num" /\ row.Pos.v = <<PyInt(pos).val, 1>>)

\* C1 (sentinel invariant): in every state reached by add, delete, new
\* survey and import the row sequence ends with a draft row, all of whose
\* fields are empty, and no other row is a draft.
C1_Sentinel ==
  /\ Len(df) >= 1
  /\ AllEmpty(df[Len(df)])
  /\ \A i \in 1..(Len(df) - 1) : ~Draft(df[i]) /\ ~IsEmptyRow(df[i])

C1_Witness ==
  /\ last_op.name = "handle_delete_entry"
  /\ last_op.outcome = "deleted"
  /\ Len(prev_df) = 4
  /\ Len(df) = 3

\* C2 (position invariant): the positions of the committed rows, read in
\* sequence order, are the texts of 1, 2, ..., N.
C2_Positions ==
  \A i \in 1..(Len(df) - 1) : df[i].Pos = Str(IntToText(i))

C2_Witness ==
  /\ last_op.name = "handle_delete_entry"
  /\ last_op.outcome = "deleted"
  /\ last_op.pos = <<"1">>
  /\ Len(df) = 3

\* C3 (upsert replaces): when a committed row of the previous sequence has
\* the position of the add, the sequence keeps its length, that row is now
\* the entry and every other row, the trailing draft included, is as before;
\* a second add at position 1 of a one-entry survey leaves the second entry
\* and the draft.
C3_UpsertReplace ==
  (/\ AddCommitted
   /\ \E i \in 1..Len(prev_df) :
        ~Draft(prev_df[i]) /\ HasPos(prev_df[i], last_op.pos))
  => LET entry == CommittedEntry(last_op.pos, last_op.form)
     IN  /\ Len(df) = Len(prev_df)
         /\ \A i \in 1..Len(prev_df) :
              df[i] = IF HasPos(prev_df[i], last_op.pos) THEN entry
                      ELSE prev_df[i]
         /\ (Len(prev_df) = 2 /\ last_op.pos = <<"1">>)
              => df = <<entry, empty_row>>

C3_Witness ==
  /\ AddCommitted
  /\ last_op.pos = <<"1">>
  /\ Len(prev_df) = 2
  /\ HasPos(prev_df[1], <<"1">>)
  /\ df[1] # prev_df[1]
  /\ Len(df) = 2

\* C4 (upsert appends): when no committed row of the frame has the position,
\* Upsert puts the entry in the place of the trailing row if that row is a
\* draft and behind the last row otherwise, then adds one empty row; the
\* rows before keep their content and order and the entry is the last
\* committed row.
C4_UpsertAppend ==
  (/\ last_op.name = "Upsert"
   /\ ~\E i \in 1..Len(prev_df) :
         ~Draft(prev_df[i]) /\ HasPos(prev_df[i], last_op.pos))
  => LET n == Len(prev_df)
         kept == IF Draft(prev_df[n]) THEN SubSeq(prev_df, 1, n - 1)
                 ELSE prev_df
     IN  df = kept \o <<PureEntry(last_op.pos), empty_row>>

C4_Witness ==
  /\ last_op.name = "Upsert"
  /\ last_op.pos = <<"3">>
  /\ Len(prev_df) = 2
  /\ ~Draft(prev_df[1])
  /\ AllEmpty(prev_df[2])
  /\ Len(df) = 3
  /\ df[2] = PureEntry(<<"3">>)

\* C5 (delete renumbers): deleting position p of committed positions 1..N
\* leaves the other N-1 rows in their order with every field but the
\* position unchanged, numbered 1..N-1, followed by one draft row that
\* carries no number.
C5_DeleteRenumbers ==
  LET N == Len(prev_df) - 1
  IN  (/\ last_op.name = "handle_delete_entry"
       /\ \A i \in 1..N : prev_df[i].Pos = Str(IntToText(i))
       /\ \E p \in 1..N : last_op.pos = IntToText(p))
      => LET p == CHOOSE q \in 1..N : last_op.pos = IntToText(q)
         IN  /\ Len(df) = N
             /\ \A i \in 1..(N - 1) :
                  df[i] = [prev_df[IF i < p THEN i ELSE i + 1]
                             EXCEPT !.Pos = Str(IntToText(i))]
             /\ df[N] = empty_row

C5_Witness ==
  /\ last_op.name = "handle_delete_entry"
  /\ last_op.pos = <<"2">>
  /\ Len(prev_df) = 4
  /\ Len(df) = 3
  /\ df[2].Pos = Str(<<"2">>)
  /\ df[2].Flaechenart = prev_df[3].Flaechenart

\* C6 (position lookup): the lookup returns exactly the rows whose stored
\* position is the text itself or, when the text reads as an integer, that
\* integer; a text that is no integer gets the text matches only; a draft
\* row is never returned for a non-empty text.
C6_FindByPosition ==
  last_op.name = "_find_existing_pos_index"
  => /\ found = {i \in 1..Len(df) : HasPos(df[i], last_op.pos)}
     /\ ~PyInt(last_op.pos).ok
          => found = {i \in 1..Len(df) : df[i].Pos = Str(last_op.pos)}
     /\ last_op.pos # <<>> => \A i \in found : ~Draft(df[i])

C6_Witness ==
  /\ last_op.name = "_find_existing_pos_index"
  /\ last_op.pos = <<"1">>
  /\ Len(df) = 2
  /\ df[1].Pos = Num(Q(1))
  /\ df[2].Pos = Str(<<"1">>)
  /\ found = {1, 2}

\* C7 (reset): the survey starts as one draft row, and a new survey that
\* went ahead leaves exactly one row, a draft, whatever the rows were before
\* (a single draft included).
C7_Reset ==
  (\/ last_op.name = "__init__"
   \/ (last_op.name = "new_survey"
       /\ last_op.outcome \in {"done", "reset_raised"}))
  => Len(df) = 1 /\ AllEmpty(df[1])

C7_Witness ==
  /\ last_op.name = "new_survey"
  /\ last_op.outcome \in {"done", "reset_raised"}
  /\ Len(prev_df) = 3
  /\ Len(df) = 1

\* C8 (bulk load): an import that passed the save question and was given a
\* readable workbook leaves the rows of the workbook followed by one draft
\* row.
C8_BulkLoadReplaces ==
  (/\ last_op.name = "import_survey"
   /\ last_op.arg = "survey"
   /\ last_op.outcome \notin {"abandoned", "raised"})
  => df = Append(load_file("survey").data_df, empty_row)

BadFields(form) ==
  {f \in {"length", "width", "height1", "height2", "stk"} :
     ~ParsedForms[form][f].ok}

\* C11 (no partial commit): an add whose length, width, height1, height2 or
\* quantity text does not parse, or whose area type is none of the twelve
\* labels, leaves the rows (and with them the positions) and the save status
\* exactly as they were.
C11_NoPartialCommit ==
  [][(/\ last_op'.name = "handle_add_entry"
      /\ \/ BadFields(last_op'.form) # {}
         \/ last_op'.form.flaeche \notin Flaechenarten)
     => /\ df' = df
        /\ PosItems(df') = PosItems(df)
        /\ is_file_up_to_date' = is_file_up_to_date]_vars

C11_Witness ==
  /\ last_op.name = "handle_add_entry"
  /\ last_op.form = FormUnknownArt
  /\ last_op.outcome = "raised"
  /\ Len(df) = 3
  /\ df = prev_df

\* ------------------------------------------------------------------------
\* Properties of the calculator
\* ------------------------------------------------------------------------
CalcCalls == {"_berechne_flaeche", "calculate_single", "calculate_single_default"}

\* C12: for an area type that is none of the twelve labels, whatever the
\* dimensions and the quantity, _berechne_flaeche and calculate_single return
\* no number (so never 0): they fail, and when the numbers handed over parse,
\* the failure is the unknown-area-type error whose text ends with the value.
C12_UnknownAreaType ==
  (/\ last_op.name \in CalcCalls
   /\ last_op.form.flaechenart \notin Flaechenarten)
  => /\ ~last_op.outcome.ok
     /\ (last_op.name = "calculate_single" => _parse_float(last_op.form.stk).ok)
        => last_op.outcome.err
             = <<"Unbekannte Flaechenart: ">> \o last_op.form.flaechenart

C12_Witness ==
  /\ last_op.name = "calculate_single"
  /\ last_op.form.flaechenart = <<"Sonstiges">>
  /\ last_op.form.laenge = <<4, 1>>
  /\ last_op.form.hoehe1 = <<5, 2>>
  /\ last_op.form.stk = Str(<<"2">>)
  /\ ~last_op.outcome.ok
  /\ last_op.outcome.err = <<"Unbekannte Flaechenart: ", "Sonstiges">>

\* a row Calculator.calculate cannot compute: one of its four dimensions is
\* a text that is no number, or its area type is none of the twelve labels
RowFails(row) ==
  \/ \E c \in {"Laenge", "Breite", "Hoehe1", "Hoehe2"} : ~_parse_float(row[c]).ok
  \/ ArtOf(row.Flaechenart) \notin Flaechenarten

\* the text is the "Error: ..." text of one row
IsErrorText(cell) ==
  /\ cell.t = "str"
  /\ Len(cell.v) >= 2
  /\ cell.v[1] = "Error: "

\* C13: Calculator.calculate returns one row per input row, in the same order
\* and with the other columns as given; a row with an unparseable number or
\* an unknown area type carries an error text as its result, every other row
\* carries the area _berechne_flaeche computes from its parsed dimensions,
\* which is also what the row gets when it is calculated alone; the frame
\* returned is a copy, the input frame is not the one written to.
C13_BatchPartialFailure ==
  last_op.name = "calculate"
  => /\ Len(last_op.outcome.rows) = Len(df)
     /\ ~last_op.outcome.alias
     /\ \A i \in 1..Len(df) :
          /\ \A c \in Columns \ {"Ergebnis"} :
               last_op.outcome.rows[i][c] = df[i][c]
          /\ IF RowFails(df[i])
             THEN IsErrorText(last_op.outcome.rows[i].Ergebnis)
             ELSE last_op.outcome.rows[i].Ergebnis
                    = Num(_berechne_flaeche(ArtOf(df[i].Flaechenart),
                                            _parse_float(df[i].Laenge).val,
                                            _parse_float(df[i].Breite).val,
                                            _parse_float(df[i].Hoehe1).val,
                                            _parse_float(df[i].Hoehe2).val).val)
          /\ last_op.outcome.rows[i] = calculate(<<df[i]>>).rows[1]

C13_Witness ==
  /\ last_op.name = "calculate"
  /\ Len(df) = 2
  /\ df[1].Breite = Str(<<"x">>)
  /\ df[2] = BatchGood
  /\ last_op.outcome.rows[1].Ergebnis
       = Str(<<"Error: ", "Ungueltige Zahl: '", "x", "'">>)
  /\ last_op.outcome.rows[2].Ergebnis = Num(<<47, 1>>)

\* the area of the formula table for heights h1, h2 as they stand after the
\* swap; s is the sloped wall 0.5*l*|h2-h1| + l*h1
TableArea(art, l, b, h1, h2) ==
  LET half == <<1, 2>>
      d == IF QLess(h2, h1) THEN QSub(h1, h2) ELSE QSub(h2, h1)
      s == QAdd(QMul(half, QMul(l, d)), QMul(l, h1))
      walls == QMul(Q(2), QMul(h1, QAdd(l, b)))
  IN  CASE art = Decke -> QMul(l, b)
        [] art = WandRechteckig -> QMul(l, h1)
        [] art = WandDreieckig -> QMul(half, QMul(l, h1))
        [] art = ZweiGegenueber -> QMul(Q(2), QMul(l, h1))
        [] art = ZweiNebeneinander -> QMul(QAdd(l, b), h1)
        [] art = AlleOhneDecke -> walls
        [] art = AlleMitDecke -> QAdd(walls, QMul(l, b))
        [] art = SchraegOhneDecke -> QAdd(QMul(Q(2), s), QMul(b, QAdd(h1, h2)))
        [] art = SchraegMitDecke ->
             QAdd(QMul(Q(2), s),
                  QMul(b, QAdd(QAdd(h1, h2),
                               QSqrt(QAdd(QMul(l, l),
                                          QMul(QSub(h2, h1), QSub(h2, h1)))))))
        [] art = FassadeFlachdach -> walls
        [] art = FassadeSatteldach -> QAdd(walls, QMul(l, d))
        [] art = FassadeDoppelhaus -> QAdd(QMul(Q(2), s), QMul(b, h1))

\* C14: for each of the twelve labels and all dimensions, _berechne_flaeche
\* exchanges the two heights exactly when h2 # 0 and h1 > h2 (after which
\* h1 <= h2 unless h2 = 0) and returns the value of the formula table for
\* the heights as they then stand.
C14_FormulaTable ==
  (/\ last_op.name = "_berechne_flaeche"
   /\ last_op.form.flaechenart \in Flaechenarten)
  => LET x == last_op.form.hoehe1
         y == last_op.form.hoehe2
         swap == y[1] # 0 /\ x[1] * y[2] > y[1] * x[2]
         h == SwapHeights(x, y)
     IN  /\ h = IF swap THEN <<y, x>> ELSE <<x, y>>
         /\ h[2][1] = 0 \/ h[1][1] * h[2][2] <= h[2][1] * h[1][2]
         /\ last_op.outcome.ok
         /\ last_op.outcome.val
              = TableArea(last_op.form.flaechenart, last_op.form.laenge,
                          last_op.form.breite,
                          IF swap THEN y ELSE x, IF swap THEN x ELSE y)

C14_Witness ==
  /\ last_op.name = "_berechne_flaeche"
  /\ last_op.form.flaechenart = SchraegOhneDecke
  /\ last_op.form.laenge = <<4, 1>>
  /\ last_op.form.breite = <<3, 1>>
  /\ last_op.form.hoehe1 = <<5, 2>>
  /\ last_op.form.hoehe2 = <<2, 1>>
  /\ last_op.outcome.ok
  /\ last_op.outcome.val = <<63, 2>>

\* the area types whose formula reads both heights (lines 116-121, 124-128)
BothHeights ==
  {SchraegOhneDecke, SchraegMitDecke, FassadeSatteldach, FassadeDoppelhaus}

\* the area of the call just made with its two heights exchanged
AreaHeightsExchanged ==
  _berechne_flaeche(last_op.form.flaechenart, last_op.form.laenge,
                    last_op.form.breite, last_op.form.hoehe2,
                    last_op.form.hoehe1)

\* one of the two heights is 0 and the other is greater than 0
OneHeightZero(x, y) ==
  \/ x[1] = 0 /\ y[1] > 0
  \/ y[1] = 0 /\ x[1] > 0

\* C15 as stated: for every area type that uses both heights and all l, b and
\* heights x, y, the area for h1 = x, h2 = y is the area for h1 = y, h2 = x.
C15_AsStated ==
  (/\ last_op.name = "_berechne_flaeche"
   /\ last_op.form.flaechenart \in BothHeights)
  => last_op.outcome.val = AreaHeightsExchanged.val

\* C15: for every area type that uses both heights and all l, b and heights
\* x, y, the area for h1 = x, h2 = y is the area for h1 = y, h2 = x, unless
\* one of the heights is 0 and the other is greater than 0 (a height of 0
\* given as h2 is never exchanged).
C15_HeightSwapSymmetry ==
  (/\ last_op.name = "_berechne_flaeche"
   /\ last_op.form.flaechenart \in BothHeights
   /\ ~OneHeightZero(last_op.form.hoehe1, last_op.form.hoehe2))
  => last_op.outcome.val = AreaHeightsExchanged.val

C15_Witness ==
  /\ last_op.name = "_berechne_flaeche"
  /\ last_op.form.flaechenart = FassadeDoppelhaus
  /\ last_op.form.laenge = <<4, 1>>
  /\ last_op.form.breite = <<3, 1>>
  /\ last_op.form.hoehe1 = <<5, 2>>
  /\ last_op.form.hoehe2 = <<2, 1>>
  /\ last_op.outcome.val = <<24, 1>>
  /\ AreaHeightsExchanged.val = <<24, 1>>

\* r is x rounded to two decimal places: a whole number of hundredths that is
\* at most half a hundredth away from x
IsRounded2(r, x) ==
  /\ 100 % r[2] = 0
  /\ ~QLess(<<1, 200>>, QAbs(QSub(r, x)))

\* the area of the dimensions of the call just made
AreaOfCall ==
  _berechne_flaeche(last_op.form.flaechenart, last_op.form.laenge,
                    last_op.form.breite, last_op.form.hoehe1,
                    last_op.form.hoehe2)

\* the forms of the add handler whose five numbers parse and whose area type
\* is one of the twelve labels
GoodForms ==
  {form \in FormInputs : BadFields(form) = {} /\ form.flaeche \in Flaechenarten}

\* the result column of the row the add handler builds from a form
StoredResult ==
  [form \in GoodForms |->
     With(ParsedForms[form], LAMBDA p :
       NewRow(<<"1">>, form, p.length.val, p.width.val, p.height1.val,
              p.height2.val, p.result.val).Ergebnis.v)]

\* the area of the numbers of a form times its quantity
AreaTimesStk ==
  [form \in GoodForms |->
     With(ParsedForms[form], LAMBDA p :
       QMul(_berechne_flaeche(form.flaeche, p.length.val, p.width.val,
                              p.height1.val, p.height2.val).val,
            p.stk.val))]

\* C16: calculate_single returns the area of _berechne_flaeche times the
\* quantity, rounded to two decimal places; without a quantity it is the
\* area itself rounded to two decimal places; and the result the add handler
\* stores in a row is this value for the numbers and the quantity of the form.
C16_SingleIsAreaTimesQty ==
  /\ (/\ last_op.name = "calculate_single"
      /\ AreaOfCall.ok
      /\ _parse_float(last_op.form.stk).ok)
     => /\ last_op.outcome.ok
        /\ IsRounded2(last_op.outcome.val,
                      QMul(AreaOfCall.val, _parse_float(last_op.form.stk).val))
  /\ (last_op.name = "calculate_single_default" /\ AreaOfCall.ok)
     => /\ last_op.outcome.ok
        /\ IsRounded2(last_op.outcome.val, AreaOfCall.val)
  /\ \A form \in GoodForms : IsRounded2(StoredResult[form], AreaTimesStk[form])

C16_Witness ==
  /\ last_op.name = "calculate_single"
  /\ last_op.form.flaechenart = SchraegMitDecke
  /\ last_op.form.laenge = <<4, 1>>
  /\ last_op.form.breite = <<3, 1>>
  /\ last_op.form.hoehe1 = <<2, 1>>
  /\ last_op.form.hoehe2 = <<5, 2>>
  /\ last_op.form.stk = Num(<<3, 2>>)
  /\ last_op.outcome.ok
  /\ last_op.outcome.val = <<6539, 100>>
  /\ last_op.outcome.val # QMul(AreaOfCall.val, <<3, 2>>)

\* C17: for each of the twelve labels and all dimensions l, b, h1, h2 >= 0,
\* _berechne_flaeche returns a value >= 0.
C17_NonNegative ==
  (/\ last_op.name = "_berechne_flaeche"
   /\ last_op.form.flaechenart \in Flaechenarten
   /\ last_op.form.laenge[1] >= 0
   /\ last_op.form.breite[1] >= 0
   /\ last_op.form.hoehe1[1] >= 0
   /\ last_op.form.hoehe2[1] >= 0)
  => /\ last_op.outcome.ok
     /\ last_op.outcome.val[1] >= 0
     /\ last_op.outcome.val[2] > 0

C17_Witness ==
  /\ last_op.name = "_berechne_flaeche"
  /\ last_op.form.flaechenart = FassadeSatteldach
  /\ last_op.form.laenge = <<4, 1>>
  /\ last_op.form.breite = <<3, 1>>
  /\ last_op.form.hoehe1 = <<0, 1>>
  /\ last_op.form.hoehe2 = <<2, 1>>
  /\ last_op.outcome.ok
  /\ last_op.outcome.val = <<8, 1>>

\* ------------------------------------------------------------------------
\* Properties of the parser of the input fields
\* ------------------------------------------------------------------------
\* one operator applied to two fractions; ok = FALSE is a division by zero
Apply(o, x, y) ==
  CASE o = "+" -> [ok |-> TRUE, val |-> QAdd(x, y)]
    [] o = "-" -> [ok |-> TRUE, val |-> QSub(x, y)]
    [] o = "*" -> [ok |-> TRUE, val |-> QMul(x, y)]
    [] o = "/" -> IF y[1] = 0 THEN [ok |-> FALSE, val |-> <<0, 1>>]
                  ELSE [ok |-> TRUE, val |-> QDiv(x, y)]

\* the value of an expression by the rules of arithmetic: parentheses first,
\* then * and /, then + and -, from left to right
ValueOf(e) ==
  LET leftFirst == With(Apply(e.o1, e.a.q, e.b.q), LAMBDA r :
                     IF r.ok THEN Apply(e.o2, r.val, e.c.q) ELSE r)
      rightFirst == With(Apply(e.o2, e.b.q, e.c.q), LAMBDA r :
                      IF r.ok THEN Apply(e.o1, e.a.q, r.val) ELSE r)
  IN  CASE e.shape = "raw" -> [ok |-> e.why = "value", val |-> e.q]
        [] e.shape = "number" -> [ok |-> TRUE, val |-> e.a.q]
        [] e.shape = "left" -> leftFirst
        [] e.shape = "right" -> rightFirst
        [] e.shape = "flat" ->
             IF e.o1 \in {"+", "-"} /\ e.o2 \in {"*", "/"} THEN rightFirst
             ELSE leftFirst

\* C18: for a text that is an arithmetic expression of numbers, + - * /,
\* parentheses and spaces, _parse_number_or_raise trims the text, reads ","
\* as the decimal point and returns the value of the expression, * and /
\* binding tighter than + and - and parentheses overriding.
C18_ParseValue ==
  (last_op.name = "_parse_number_or_raise" /\ ValueOf(last_op.form).ok)
  => /\ last_op.outcome.ok
     /\ last_op.outcome.val = ValueOf(last_op.form).val

C18_Witness ==
  /\ last_op.name = "_parse_number_or_raise"
  /\ last_op.pos = <<" ", "2", " ", "+", "(", " ", "3", ",", "5", " ", "-",
                     " ", "2", " ", ")", " ">>
  /\ last_op.outcome.ok
  /\ last_op.outcome.val = <<7, 2>>

\* the text as the pattern sees it: trimmed, with "." for ","
Cleaned(text) == ReplaceComma(Strip(text))

\* the cleaned text is empty or holds a character outside the allowed set
OutsidePattern(text) ==
  \/ Cleaned(text) = <<>>
  \/ \E i \in 1..Len(Cleaned(text)) :
       Cleaned(text)[i]
         \notin DigitSet \cup {".", "+", "-", "*", "/", "(", ")", " "}

\* C19: a text that, trimmed and with "." for ",", is empty or holds any
\* character other than digits, ".", "+", "-", "*", "/", "(", ")" and space
\* is rejected with the invalid-input error that names the field, and eval
\* is not reached.
C19_Whitelist ==
  (last_op.name = "_parse_number_or_raise" /\ OutsidePattern(last_op.pos))
  => /\ ~last_op.outcome.ok
     /\ ~last_op.outcome.evaluated
     /\ last_op.outcome.err = error_text(last_op.arg)
     /\ \E i \in 1..Len(last_op.outcome.err) :
          <<last_op.outcome.err[i]>> = last_op.arg

C19_Witness ==
  /\ last_op.name = "_parse_number_or_raise"
  /\ last_op.pos = <<" ", " ">>
  /\ last_op.arg = <<"Stk.">>
  /\ ~last_op.outcome.ok
  /\ ~last_op.outcome.evaluated
  /\ last_op.outcome.err[2] = "Stk."

\* the ways a text that passes the pattern fails to evaluate
EvaluationFailures ==
  {"division by zero", "unbalanced parentheses", "missing operand",
   "juxtaposed numbers", "leading zero"}

\* the text of the call does not evaluate to a number
DoesNotEvaluate(e) ==
  IF e.shape = "raw" THEN e.why \in EvaluationFailures ELSE ~ValueOf(e).ok

\* C20: a text that passes the pattern and does not evaluate to a number
\* (division by zero, unbalanced parentheses, missing operand, juxtaposed
\* numbers) reaches eval and fails with the invalid-input error that names
\* the field; and whatever the text, the parser either returns a value or
\* fails with that error, never with another one.
C20_EvaluationFailure ==
  last_op.name = "_parse_number_or_raise"
  => /\ DoesNotEvaluate(last_op.form)
        => /\ ~OutsidePattern(last_op.pos)
           /\ last_op.outcome.evaluated
           /\ ~last_op.outcome.ok
           /\ last_op.outcome.err = error_text(last_op.arg)
     /\ IF last_op.outcome.ok THEN last_op.outcome.err = <<>>
        ELSE /\ last_op.outcome.err = error_text(last_op.arg)
             /\ last_op.outcome.val = <<0, 1>>

C20_Witness ==
  /\ last_op.name = "_parse_number_or_raise"
  /\ last_op.pos = <<"3", "/", "(", "2", "-", "2", ")">>
  /\ last_op.arg = <<"Laenge">>
  /\ last_op.outcome.evaluated
  /\ ~last_op.outcome.ok
  /\ last_op.outcome.err[2] = "Laenge"

\* the ValueError of _parse_float for a text: its message carries the text
\* with "." for ","
InvalidNumber(cell) ==
  <<"Ungueltige Zahl: '">>
    \o [i \in 1..Len(cell.v) |-> IF cell.v[i] = "," THEN "." ELSE cell.v[i]]
    \o <<"'">>

HasOtherOperator(text) ==
  \E i \in 1..(Len(text) - 1) : text[i] \in {"*", "/"} /\ text[i + 1] = text[i]

\* C22 (restricted grammar): a text that passes the pattern and is no sentence
\* of the grammar of numbers, + - * / and parentheses, such as one with "**"
\* or "//", is rejected with the invalid-input error of the field.
C22_RestrictedGrammar ==
  (/\ last_op.name = "_parse_number_or_raise"
   /\ ~OutsidePattern(last_op.pos)
   /\ HasOtherOperator(Cleaned(last_op.pos)))
  => /\ ~last_op.outcome.ok
     /\ last_op.outcome.err = error_text(last_op.arg)

\* ------------------------------------------------------------------------
\* Further properties of the survey tab
\* ------------------------------------------------------------------------
\* C23 (quantity default): an entry submitted with an empty quantity field
\* and four valid dimensions is committed, with quantity 1 and the area
\* times 1 as its result.
C23_QuantityDefault ==
  (/\ last_op.name = "handle_add_entry"
   /\ Strip(last_op.form.stk) = <<>>
   /\ BadFields(last_op.form) \subseteq {"stk"}
   /\ last_op.form.flaeche \in Flaechenarten
   /\ prev_df # <<>> \/ df # <<>>)
  => /\ last_op.outcome \in {"appended", "replaced"}
     /\ \E i \in 1..Len(df) :
          /\ df[i].Pos = Str(last_op.pos)
          /\ df[i].Stk = Str(<<"1">>)
          /\ df[i].Ergebnis
               = Num(Round2(_berechne_flaeche(
                       last_op.form.flaeche,
                       ParsedForms[last_op.form].length.val,
                       ParsedForms[last_op.form].width.val,
                       ParsedForms[last_op.form].height1.val,
                       ParsedForms[last_op.form].height2.val).val))

\* C24: in every state reachable from a new survey the row sequence is not
\* empty; an add whose five numbers parse and whose area type is one of the
\* twelve labels completes (it appends or replaces); a delete with any
\* position text completes, and the rows left after dropping the matching
\* ones, whose last row it then inspects, are never none.
C24_StructuralOpsSucceed ==
  /\ df # <<>>
  /\ (/\ last_op.name = "handle_add_entry"
      /\ BadFields(last_op.form) = {}
      /\ last_op.form.flaeche \in Flaechenarten)
     => last_op.outcome \in {"appended", "replaced"}
  /\ last_op.name = "handle_delete_entry"
     => /\ last_op.outcome \in {"returned", "absent", "deleted"}
        /\ last_op.outcome # "returned"
           => Drop(prev_df, _find_existing_pos_index(prev_df, Strip(last_op.pos)),
                   1) # <<>>

C24_Witness ==
  /\ last_op.name = "handle_delete_entry"
  /\ last_op.outcome = "deleted"
  /\ Len(prev_df) = 2
  /\ df = <<empty_row>>

\* C25 (save under): when a folder was selected, the export creates a file
\* for every handler of the document type, and each file is written into
\* the selected folder.
C25_SaveUnder ==
  (last_op.name = "export_files" /\ last_op.arg = "folder")
  => /\ Len(handed)
          = IF last_op.outcome.document_type = "pdf & excel" THEN 2 ELSE 1
     /\ \A i \in 1..Len(handed) : handed[i].dir = "folder"

\* a stored dimension that counts as a value for the export: not null and,
\* written as text and trimmed, none of "", "0" and "0.0"
CountsAsValue(c) ==
  CASE c.t = "nan" -> FALSE
    [] c.t = "num" -> c.v[1] # 0
    [] c.t = "str" -> Strip(c.v) \notin {<<>>, <<"0">>, <<"0", ".", "0">>}

\* the precondition of the export: the customer's last name has two or more
\* characters and the first row has a value in one of its four dimensions
ExportPrecondition(name, frame) ==
  /\ Len(Strip(name)) >= 2
  /\ \/ CountsAsValue(frame[1].Laenge)
     \/ CountsAsValue(frame[1].Breite)
     \/ CountsAsValue(frame[1].Hoehe1)
     \/ CountsAsValue(frame[1].Hoehe2)

Committed(frame) == SubSeq(frame, 1, Len(frame) - 1)

\* the position text, trimmed, is empty or is the position of no committed row
MatchesNoRow(frame, pos) ==
  \/ Strip(pos) = <<>>
  \/ \A i \in 1..(Len(frame) - 1) : frame[i].Pos # Str(Strip(pos))

\* C27: a delete with a position text that is empty or matches no committed
\* row (such as the draft slot N+1) removes nothing: the committed rows,
\* their order and their positions 1..N are the same afterwards and exactly
\* one draft row follows them.
C27_DeleteAbsent ==
  [][(/\ last_op'.name = "handle_delete_entry"
      /\ MatchesNoRow(df, last_op'.pos))
     => /\ Committed(df') = Committed(df)
        /\ \A i \in 1..(Len(df') - 1) :
             df'[i].Pos = Str(IntToText(i)) /\ ~IsEmptyRow(df'[i])
        /\ Len(df') = Len(df)
        /\ df'[Len(df')] = empty_row]_vars

C27_Witness ==
  /\ last_op.name = "handle_delete_entry"
  /\ last_op.pos = <<"3">>
  /\ last_op.outcome = "absent"
  /\ Len(prev_df) = 3
  /\ df = prev_df

\* the step just taken is one that brings rows and files together: an export
\* that returned True, a new survey that reached set_save_status(True), or
\* an import that loaded its file
Synchronised(op) ==
  \/ op.name \in {"save", "save_under"} /\ op.outcome = "exported"
  \/ op.name = "new_survey" /\ op.outcome = "done"
  \/ op.name = "import_survey" /\ op.outcome = "loaded"

\* the step just taken added, replaced or deleted a row
Mutated(op) ==
  \/ op.name = "handle_add_entry" /\ op.outcome \in {"appended", "replaced"}
  \/ op.name = "handle_delete_entry" /\ op.outcome = "deleted"

\* C28: after every completed add, replace or delete the survey is marked
\* not up to date; a step leaves it marked up to date only if it is a
\* successful export, a completed new survey or a successful import, or if
\* the survey was up to date before and the step left the rows as they
\* were.  So no modified row sequence is ever marked up to date.
C28_SaveStatus ==
  [][/\ Mutated(last_op') => ~is_file_up_to_date'
     /\ is_file_up_to_date'
          => \/ Synchronised(last_op')
             \/ is_file_up_to_date /\ df' = df]_vars

C28_Witness ==
  /\ last_op.name = "handle_add_entry"
  /\ last_op.outcome = "replaced"
  /\ df # prev_df
  /\ ~is_file_up_to_date

\* the guarded action went past check_save_before_action
GoesAhead(op) ==
  \/ op.name = "new_survey" /\ op.outcome \in {"done", "reset_raised"}
  \/ op.name = "import_survey"
       /\ op.outcome \in {"loaded", "no_file", "handler_error", "load_failed"}
  \/ op.name = "closeEvent" /\ op.outcome = "accepted"

\* what the export started by the answer Yes comes to in this state
ExportOnYes == generate_survey(df, last_name, Ausgabedokument, "").result

\* C29: a step of new_survey, import_survey or closeEvent goes ahead only
\* if the survey is up to date, or the answer is No, or the answer is Yes
\* and the export succeeds; with the answer Cancel, or Yes and a refused
\* export, the action is abandoned and the rows are as before.
C29_UnsavedGuard ==
  [][last_op'.name \in {"new_survey", "import_survey", "closeEvent"}
       => /\ GoesAhead(last_op')
               => \/ is_file_up_to_date
                  \/ last_op'.reply = "No"
                  \/ last_op'.reply = "Yes" /\ ExportOnYes = "exported"
          /\ (\/ last_op'.reply = "Cancel"
              \/ last_op'.reply = "Yes" /\ ExportOnYes = "refused")
               => /\ ~GoesAhead(last_op')
                  /\ last_op'.outcome \in {"abandoned", "ignored"}
                  /\ df' = df]_vars

C29_Witness ==
  /\ last_op.name = "new_survey"
  /\ last_op.reply = "Yes"
  /\ last_op.outcome = "abandoned"
  /\ Len(df) = 3
  /\ df = prev_df
  /\ handed = <<>>

\* calculate_single applied to the stored fields of a row
Recomputed(row) ==
  calculate_single(row.Flaechenart.v, row.Laenge, row.Breite, row.Hoehe1,
                   row.Hoehe2, row.Stk)

\* C30: in every reachable state the stored result of each committed row is
\* what calculate_single returns for that row's stored area type, length,
\* width, heights and quantity.
C30_ResultConsistency ==
  \A i \in 1..(Len(df) - 1) :
    With(Recomputed(df[i]), LAMBDA r :
      r.ok /\ df[i].Ergebnis = Num(r.val))

====
